---- MODULE Spec2Model ----
(***************************************************************************)
(* Taxonomy mapping engine of scanium (scripts/ebay): the scorer           *)
(* match_confidence with tokenize and the synonym index, and the mapping   *)
(* pass map_categories that partitions the flat categories into mapping    *)
(* records and unmapped records.                                           *)
(*                                                                         *)
(* A Python str is modelled as a sequence of one-character strings, so     *)
(* that lower-casing, splitting and substring tests are computed on the    *)
(* characters as the code computes them.                                   *)
(***************************************************************************)
EXTENDS Integers, Sequences, FiniteSets, TLC

VARIABLES
    pc,               \* position of the running script
    ebay_categories,  \* map_categories: the loaded flat categories
    scanium_subtypes, \* map_categories: the loaded subtypes
    ci,               \* index of the category of the outer loop (1-based)
    si,               \* index of the subtype of the inner loop (1-based)
    best_match,       \* <<>> for None, <<subtype>> once set
    best_confidence,  \* "None" or a confidence level
    last,             \* (match_found, confidence, reason) of the last call
    mappings,         \* list of mapping records
    unmapped,         \* list of unmapped records
    outputs,          \* the documents written so far
    ebay_name,        \* match_confidence: argument
    scanium_id,       \* match_confidence: argument
    scanium_name,     \* match_confidence: argument
    result,           \* match_confidence: returned tuple
    tree_data,        \* flatten_category_tree: argument
    flat_categories,  \* flatten_category_tree: returned list
    raised,           \* flatten_category_tree: "" or the exception raised
    run,              \* pipeline: 1 in the first run, 2 in the second
    previous,         \* pipeline: the lists produced by the first run
    existing,         \* merge_brands: argument, also the argument of dedupe_brands
    new_brands,       \* merge_brands: argument "new"
    returned,         \* dedupe_brands, merge_brands: returned list
    payload,          \* validate_payload, apply_update: the payload of the last call
    validation,       \* validate_payload: returned pair
    catalog,          \* the content of brands_catalog_bundle_v1.json
    updates           \* number of runs of append_brands_bundle so far

vars == << pc, ebay_categories, scanium_subtypes, ci, si, best_match,
           best_confidence, last, mappings, unmapped, outputs,
           ebay_name, scanium_id, scanium_name, result,
           tree_data, flat_categories, raised,
           run, previous,
           existing, new_brands, returned, payload, validation, catalog, updates >>

(***************************************************************************)
(* Bounds of the model.                                                    *)
(***************************************************************************)
MaxNameWords == 2
MaxCats == 2
MaxSubs == 2
MaxNodes == 3
MaxExisting == 3
MaxNew == 1
MaxPayloadBrands == 2
MaxUpdates == 2
MaxRuns == 3

(***************************************************************************)
(* Text: str.lower, str.replace, substring test, list membership.          *)
(***************************************************************************)
UpperToLower ==
    [c \in {"A","B","C","D","E","F","G","H","I","J","K","L","M",
            "N","O","P","Q","R","S","T","U","V","W","X","Y","Z"} |->
       CASE c = "A" -> "a" [] c = "B" -> "b" [] c = "C" -> "c" [] c = "D" -> "d"
         [] c = "E" -> "e" [] c = "F" -> "f" [] c = "G" -> "g" [] c = "H" -> "h"
         [] c = "I" -> "i" [] c = "J" -> "j" [] c = "K" -> "k" [] c = "L" -> "l"
         [] c = "M" -> "m" [] c = "N" -> "n" [] c = "O" -> "o" [] c = "P" -> "p"
         [] c = "Q" -> "q" [] c = "R" -> "r" [] c = "S" -> "s" [] c = "T" -> "t"
         [] c = "U" -> "u" [] c = "V" -> "v" [] c = "W" -> "w" [] c = "X" -> "x"
         [] c = "Y" -> "y" [] c = "Z" -> "z"]

\* upper-case letters without a lower-case mapping, which str.lower keeps:
\* "U+2102" stands for the one character DOUBLE-STRUCK CAPITAL C
UpperWithoutLower == { "U+2102" }

lower(text) ==
    [i \in 1..Len(text) |->
        IF text[i] \in DOMAIN UpperToLower THEN UpperToLower[text[i]] ELSE text[i]]

replace(text, old, new) ==
    [i \in 1..Len(text) |-> IF text[i] = old THEN new ELSE text[i]]

\* Python "a in b" for two str values
IsSubstring(a, b) ==
    \E k \in 0..(Len(b) - Len(a)) : SubSeq(b, k + 1, k + Len(a)) = a

\* Python "x in xs" for a list
InList(x, xs) == \E k \in 1..Len(xs) : xs[k] = x

(***************************************************************************)
(* The synonym table and its inversion.                                    *)
(***************************************************************************)
SYNONYMS ==
   <<
      << <<"l","a","p","t","o","p">>,
         << <<"n","o","t","e","b","o","o","k">>,
            <<"c","o","m","p","u","t","e","r">>,
            <<"m","a","c","b","o","o","k">>,
            <<"c","h","r","o","m","e","b","o","o","k">> >> >>,
      << <<"m","o","n","i","t","o","r">>,
         << <<"d","i","s","p","l","a","y">>,
            <<"s","c","r","e","e","n">>,
            <<"l","c","d">> >> >>,
      << <<"t","e","l","e","v","i","s","i","o","n">>,
         << <<"t","v">>,
            <<"t","e","l","l","y">>,
            <<"s","c","r","e","e","n">> >> >>,
      << <<"s","m","a","r","t","p","h","o","n","e">>,
         << <<"p","h","o","n","e">>,
            <<"m","o","b","i","l","e">>,
            <<"i","p","h","o","n","e">>,
            <<"a","n","d","r","o","i","d">> >> >>,
      << <<"t","a","b","l","e","t">>,
         << <<"i","p","a","d">>,
            <<"p","a","d">> >> >>,
      << <<"h","e","a","d","p","h","o","n","e","s">>,
         << <<"e","a","r","b","u","d","s">>,
            <<"e","a","r","p","h","o","n","e","s">>,
            <<"h","e","a","d","s","e","t">>,
            <<"a","i","r","p","o","d","s">> >> >>,
      << <<"s","p","e","a","k","e","r">>,
         << <<"b","l","u","e","t","o","o","t","h"," ","s","p","e","a","k","e","r">>,
            <<"a","u","d","i","o">> >> >>,
      << <<"c","a","m","e","r","a">>,
         << <<"d","s","l","r">>,
            <<"m","i","r","r","o","r","l","e","s","s">>,
            <<"c","a","m","c","o","r","d","e","r">> >> >>,
      << <<"p","r","i","n","t","e","r">>,
         << <<"i","n","k","j","e","t">>,
            <<"l","a","s","e","r">> >> >>,
      << <<"r","o","u","t","e","r">>,
         << <<"w","i","f","i">>,
            <<"w","i","r","e","l","e","s","s">> >> >>,
      << <<"s","m","a","r","t","w","a","t","c","h">>,
         << <<"w","a","t","c","h">>,
            <<"w","e","a","r","a","b","l","e">> >> >>,
      << <<"g","a","m","e"," ","c","o","n","s","o","l","e">>,
         << <<"g","a","m","i","n","g">>,
            <<"p","l","a","y","s","t","a","t","i","o","n">>,
            <<"x","b","o","x">>,
            <<"s","w","i","t","c","h">> >> >>,
      << <<"s","o","f","a">>,
         << <<"c","o","u","c","h">>,
            <<"s","e","t","t","e","e">>,
            <<"l","o","u","n","g","e">> >> >>,
      << <<"c","h","a","i","r">>,
         << <<"s","e","a","t">>,
            <<"s","e","a","t","i","n","g">> >> >>,
      << <<"t","a","b","l","e">>,
         << <<"d","e","s","k">>,
            <<"d","i","n","i","n","g">> >> >>,
      << <<"m","i","c","r","o","w","a","v","e">>,
         << <<"o","v","e","n">>,
            <<"m","i","c","r","o","w","a","v","e"," ","o","v","e","n">> >> >>,
      << <<"v","a","c","u","u","m">>,
         << <<"v","a","c","u","u","m"," ","c","l","e","a","n","e","r">>,
            <<"h","o","o","v","e","r">> >> >>,
      << <<"c","o","f","f","e","e"," ","m","a","c","h","i","n","e">>,
         << <<"c","o","f","f","e","e"," ","m","a","k","e","r">>,
            <<"e","s","p","r","e","s","s","o">> >> >>,
      << <<"d","r","i","l","l">>,
         << <<"p","o","w","e","r"," ","d","r","i","l","l">> >> >>,
      << <<"s","a","w">>,
         << <<"c","i","r","c","u","l","a","r"," ","s","a","w">>,
            <<"j","i","g","s","a","w">> >> >>,
      << <<"l","a","w","n"," ","m","o","w","e","r">>,
         << <<"m","o","w","e","r">>,
            <<"g","r","a","s","s">> >> >>,
      << <<"b","l","e","n","d","e","r">>,
         << <<"m","i","x","e","r">>,
            <<"f","o","o","d"," ","p","r","o","c","e","s","s","o","r">> >> >>,
      << <<"g","a","m","i","n","g"," ","l","a","p","t","o","p">>,
         << <<"g","a","m","i","n","g"," ","p","c">>,
            <<"g","a","m","i","n","g"," ","c","o","m","p","u","t","e","r">> >> >>,
      << <<"g","a","m","i","n","g"," ","d","e","s","k","t","o","p">>,
         << <<"g","a","m","i","n","g"," ","p","c">>,
            <<"g","a","m","i","n","g"," ","t","o","w","e","r">> >> >>,
      << <<"m","e","c","h","a","n","i","c","a","l"," ","k","e","y","b","o","a","r","d">>,
         << <<"g","a","m","i","n","g"," ","k","e","y","b","o","a","r","d">>,
            <<"k","e","y","b","o","a","r","d">> >> >>
   >>

\* the (syn, primary) pairs in the order the two nested loops visit them
RECURSIVE SynonymPairs(_)
SynonymPairs(k) ==
    IF k > Len(SYNONYMS) THEN << >>
    ELSE [j \in 1..Len(SYNONYMS[k][2]) |->
              << SYNONYMS[k][2][j], SYNONYMS[k][1] >>] \o SynonymPairs(k + 1)

\* variant: the guard "if syn not in REVERSE_SYNONYMS" is missing
RECURSIVE BuildReverse_overwrite(_, _, _)
BuildReverse_overwrite(pairs, k, acc) ==
    IF k > Len(pairs) THEN acc
    ELSE BuildReverse_overwrite(pairs, k + 1, (pairs[k][1] :> pairs[k][2]) @@ acc)

RECURSIVE BuildReverse(_, _, _)
BuildReverse(pairs, k, acc) ==
    IF k > Len(pairs) THEN acc
    ELSE IF pairs[k][1] \notin DOMAIN acc
         THEN BuildReverse(pairs, k + 1, acc @@ (pairs[k][1] :> pairs[k][2]))
         ELSE BuildReverse(pairs, k + 1, acc)

REVERSE_SYNONYMS == BuildReverse(SynonymPairs(1), 1, << >>)

CONFIDENCE_HIGH == "high"
CONFIDENCE_MEDIUM == "medium"
CONFIDENCE_LOW == "low"

(***************************************************************************)
(* tokenize: re.split on runs of whitespace, hyphen and underscore of the  *)
(* lower-cased text, then the empty fragments are dropped.                 *)
(***************************************************************************)
Separators == {" ", "\t", "\n", "\r", "\f", "-", "_"}

\* re.split(r'[\s\-_]+', text): a run of separators closes one fragment
RECURSIVE re_split(_, _, _)
re_split(text, k, cur) ==
    IF k > Len(text) THEN << cur >>
    ELSE IF text[k] \in Separators
         THEN IF k > 1 /\ text[k - 1] \in Separators
              THEN re_split(text, k + 1, cur)
              ELSE << cur >> \o re_split(text, k + 1, << >>)
         ELSE re_split(text, k + 1, Append(cur, text[k]))

\* variant: the empty fragments are kept
tokenize_keepEmpty(text) == re_split(lower(text), 1, << >>)

tokenize(text) == SelectSeq(re_split(lower(text), 1, << >>), LAMBDA t : t # << >>)

(***************************************************************************)
(* match_confidence.  The returned tuple is <<found, confidence, reason>>; *)
(* a reason is the text of the f-string with its interpolated values kept  *)
(* apart: [rule, tokens, counts].                                          *)
(***************************************************************************)
Reason(rule, tokens, counts) == [rule |-> rule, tokens |-> tokens, counts |-> counts]

NoMatch == << FALSE, "", Reason("", << >>, << >>) >>

\* variant: the names are compared as they are, without lower()
ExactMatch_caseSensitive(name, display) == name = display

ExactMatch(name, display) == lower(name) = lower(display)

\* variant: a subtype token contained in the name token counts as a hit
DirectTokenHit_contained(ebay_token, scanium_tokens, scanium_tokens_from_id) ==
    \/ \E k \in 1..Len(scanium_tokens) : IsSubstring(scanium_tokens[k], ebay_token)
    \/ \E k \in 1..Len(scanium_tokens_from_id) :
          IsSubstring(scanium_tokens_from_id[k], ebay_token)

DirectTokenHit(ebay_token, scanium_tokens, scanium_tokens_from_id) ==
    InList(ebay_token, scanium_tokens) \/ InList(ebay_token, scanium_tokens_from_id)

\* variant: the canonical term is compared with == instead of in
SynonymHit_equal(ebay_token, id) ==
    /\ ebay_token \in DOMAIN REVERSE_SYNONYMS
    /\ REVERSE_SYNONYMS[ebay_token] = lower(id)

SynonymHit(ebay_token, id) ==
    /\ ebay_token \in DOMAIN REVERSE_SYNONYMS
    /\ IsSubstring(REVERSE_SYNONYMS[ebay_token], lower(id))

\* for ebay_token in ebay_tokens: direct token match, then synonym match
RECURSIVE token_loop(_, _, _, _, _)
token_loop(ebay_tokens, k, scanium_tokens, scanium_tokens_from_id, id) ==
    IF k > Len(ebay_tokens) THEN NoMatch
    ELSE IF DirectTokenHit(ebay_tokens[k], scanium_tokens, scanium_tokens_from_id)
         THEN << TRUE, CONFIDENCE_HIGH,
                 Reason("Direct token match", << ebay_tokens[k] >>, << >>) >>
    ELSE IF SynonymHit(ebay_tokens[k], id)
         THEN << TRUE, CONFIDENCE_MEDIUM,
                 Reason("Synonym match",
                        << ebay_tokens[k], REVERSE_SYNONYMS[ebay_tokens[k]] >>, << >>) >>
    ELSE token_loop(ebay_tokens, k + 1, scanium_tokens, scanium_tokens_from_id, id)

\* variant: the window is joined with an underscore
two_token_underscore(ebay_tokens, k) == ebay_tokens[k] \o << "_" >> \o ebay_tokens[k + 1]

two_token(ebay_tokens, k) == ebay_tokens[k] \o << " " >> \o ebay_tokens[k + 1]

\* for i in range(len(ebay_tokens) - 1)
RECURSIVE bigram_loop(_, _, _, _)
bigram_loop(ebay_tokens, k, id, display) ==
    IF k > Len(ebay_tokens) - 1 THEN NoMatch
    ELSE IF \/ IsSubstring(two_token(ebay_tokens, k), lower(display))
            \/ IsSubstring(two_token(ebay_tokens, k), lower(id))
         THEN << TRUE, CONFIDENCE_MEDIUM,
                 Reason("Multi-token match", << two_token(ebay_tokens, k) >>, << >>) >>
    ELSE bigram_loop(ebay_tokens, k + 1, id, display)

matching_tokens(ebay_tokens, scanium_tokens, scanium_tokens_from_id) ==
    Cardinality({k \in 1..Len(ebay_tokens) :
        DirectTokenHit(ebay_tokens[k], scanium_tokens, scanium_tokens_from_id)})

weak_match(ebay_tokens, scanium_tokens, scanium_tokens_from_id) ==
    LET m == matching_tokens(ebay_tokens, scanium_tokens, scanium_tokens_from_id)
    IN  IF m >= 1 /\ Len(ebay_tokens) <= 3
        THEN << TRUE, CONFIDENCE_LOW,
                Reason("Weak token overlap", << >>, << m, Len(ebay_tokens) >>) >>
        ELSE NoMatch

match_confidence(name, id, display) ==
    LET ebay_tokens == tokenize(name)
        scanium_tokens == tokenize(display)
        scanium_tokens_from_id == tokenize(replace(id, "_", " "))
        byToken == token_loop(ebay_tokens, 1, scanium_tokens, scanium_tokens_from_id, id)
        byBigram == bigram_loop(ebay_tokens, 1, id, display)
    IN  IF ExactMatch(name, display)
        THEN << TRUE, CONFIDENCE_HIGH, Reason("Exact name match", << >>, << >>) >>
        ELSE IF byToken[1] THEN byToken
        ELSE IF byBigram[1] THEN byBigram
        ELSE weak_match(ebay_tokens, scanium_tokens, scanium_tokens_from_id)

(***************************************************************************)
(* map_categories: the mapping pass.                                       *)
(***************************************************************************)
\* variant: every HIGH candidate replaces the current best
ShouldReplace_anyHigh(best, bestConf, confidence) ==
    \/ best = << >>
    \/ confidence \in {CONFIDENCE_HIGH}

\* variant: a HIGH candidate replaces every current best that is not HIGH
ShouldReplace_upgrade(best, bestConf, confidence) ==
    \/ best = << >>
    \/ /\ confidence \in {CONFIDENCE_HIGH}
       /\ bestConf # CONFIDENCE_HIGH

\* variant: every matching candidate replaces the current best
ShouldReplace_lastWins(best, bestConf, confidence) == TRUE

\* the condition of lines 161-164
ShouldReplace(best, bestConf, confidence) ==
    \/ best = << >>
    \/ /\ confidence \in {CONFIDENCE_HIGH}
       /\ (bestConf = "None" \/ bestConf = CONFIDENCE_LOW)

MappingRecord(cat, best, bestConf) ==
    [ebayCategoryId |-> cat.ebayCategoryId,
     ebayName |-> cat.name,
     ebayPath |-> cat.path,
     scaniumSubtypeId |-> best[1].id,
     scaniumDisplayName |-> best[1].displayName,
     confidence |-> bestConf]

UnmappedRecord(cat) ==
    [ebayCategoryId |-> cat.ebayCategoryId,
     ebayName |-> cat.name,
     ebayPath |-> cat.path]

\* "if best_match:" branch of lines 168-176
EmitMappings(ms, cat, best, bestConf) ==
    IF best # << >> THEN Append(ms, MappingRecord(cat, best, bestConf)) ELSE ms

\* variant: the unmapped record is appended without the else
EmitUnmapped_always(us, cat, best) == Append(us, UnmappedRecord(cat))

\* variant: the test of the else branch is inverted
EmitUnmapped_inverted(us, cat, best) ==
    IF best = << >> THEN us ELSE Append(us, UnmappedRecord(cat))

\* "else:" branch of lines 177-182
EmitUnmapped(us, cat, best) ==
    IF best # << >> THEN us ELSE Append(us, UnmappedRecord(cat))

(***************************************************************************)
(* Inputs.  The categories are the flat records of the mock taxonomy of    *)
(* fetch_taxonomy_mock (its first branch) and records for the scenarios;   *)
(* the subtypes carry id and displayName.                                  *)
(***************************************************************************)
Cat(id, name, path) == [ebayCategoryId |-> id, name |-> name, path |-> path]
Subtype(id, display) == [id |-> id, displayName |-> display]

CategoryPool ==
    { Cat("11232", <<"E","l","e","c","t","r","o","n","i","c","s"," ","&"," ","C","o","m","p","u","t","e","r","s">>, << <<"E","l","e","c","t","r","o","n","i","c","s"," ","&"," ","C","o","m","p","u","t","e","r","s">> >>),
      Cat("11232", <<"L","a","p","t","o","p","s">>, << <<"E","l","e","c","t","r","o","n","i","c","s"," ","&"," ","C","o","m","p","u","t","e","r","s">>, <<"L","a","p","t","o","p","s">> >>),
      Cat("111", <<"M","o","n","i","t","o","r","s">>, << <<"E","l","e","c","t","r","o","n","i","c","s"," ","&"," ","C","o","m","p","u","t","e","r","s">>, <<"M","o","n","i","t","o","r","s">> >>),
      Cat("177", <<"G","a","m","i","n","g"," ","L","a","p","t","o","p">>, << <<"G","a","m","i","n","g"," ","L","a","p","t","o","p">> >>),
      Cat("175", <<"N","o","t","e","b","o","o","k"," ","C","o","m","p","u","t","e","r","s">>, << <<"N","o","t","e","b","o","o","k"," ","C","o","m","p","u","t","e","r","s">> >>),
      Cat("9000", <<"W","i","d","g","e","t","s">>, << <<"W","i","d","g","e","t","s">> >>) }

SubLaptop == Subtype(<<"e","l","e","c","t","r","o","n","i","c","s","_","l","a","p","t","o","p">>, <<"L","a","p","t","o","p">>)
SubGamingLaptop == Subtype(<<"e","l","e","c","t","r","o","n","i","c","s","_","g","a","m","i","n","g","_","l","a","p","t","o","p">>, <<"G","a","m","i","n","g"," ","L","a","p","t","o","p">>)
SubNotebook == Subtype(<<"e","l","e","c","t","r","o","n","i","c","s","_","n","o","t","e","b","o","o","k">>, <<"N","o","t","e","b","o","o","k","s"," ","&"," ","L","a","p","t","o","p","s">>)
SubSofa == Subtype(<<"f","u","r","n","i","t","u","r","e","_","s","o","f","a">>, <<"S","o","f","a">>)

SubtypePool == { SubLaptop, SubGamingLaptop, SubNotebook, SubSofa }

\* the lists of at most n distinct elements of S
DistinctSeqs(S, n) ==
    UNION { { q \in [1..m -> S] : \A a, b \in 1..m : a # b => q[a] # q[b] } : m \in 0..n }

NameWords ==
    { <<"L","a","p","t","o","p">>, <<"L","a","p","t","o","p","s">>, <<"N","o","t","e","b","o","o","k">>, <<"C","o","m","p","u","t","e","r","s">>, <<"G","a","m","i","n","g">>, <<"W","i","d","g","e","t","s">>,
      <<"l","a","p","t","o","p">>, <<"F","l","a","t","-","S","c","r","e","e","n">>, <<"B","o","o","k">>, <<"C","o","m","p">> }

RECURSIVE JoinWords(_)
JoinWords(ws) ==
    IF Len(ws) = 0 THEN << >>
    ELSE IF Len(ws) = 1 THEN ws[1]
    ELSE ws[1] \o << " " >> \o JoinWords(Tail(ws))

\* names with nothing but separators, with runs of separators, with
\* separators at both ends, and with a letter that str.lower leaves alone
EdgeNames ==
    { << >>, << " ", " ", " " >>, << " ", "-", "_", "\t" >>,
      <<"F","l","a","t","_","S","c","r","e","e","n"," "," ","T","V","-">>, <<"-","-","L","a","p","t","o","p">>, << "U+2102" >> \o <<" ","L","a","p","t","o","p">> }

Names ==
    { JoinWords(ws) : ws \in UNION { [1..m -> NameWords] : m \in 1..MaxNameWords } }
    \cup EdgeNames

ScoreIds ==
    { <<"e","l","e","c","t","r","o","n","i","c","s","_","l","a","p","t","o","p">>, <<"e","l","e","c","t","r","o","n","i","c","s","_","g","a","m","i","n","g","_","l","a","p","t","o","p">>,
      <<"e","l","e","c","t","r","o","n","i","c","s","_","m","o","n","i","t","o","r">>, <<"l","a","p","t","o","p">> }

ScoreDisplayNames ==
    { <<"L","a","p","t","o","p">>, <<"G","a","m","i","n","g"," ","L","a","p","t","o","p">>, <<"N","o","t","e","b","o","o","k"," ","C","o","m","p","u","t","e","r","s">>, <<"M","o","n","i","t","o","r">>, <<"L","A","P","T","O","P">> }

(***************************************************************************)
(* The mapping pass as a state machine.                                    *)
(***************************************************************************)
scoreVars == << ebay_name, scanium_id, scanium_name, result >>
flatVars == << tree_data, flat_categories, raised >>
runVars == << run, previous >>
brandVars == << existing, new_brands, returned, payload, validation, catalog, updates >>
mapVars == << ebay_categories, scanium_subtypes, ci, si, best_match,
              best_confidence, last, mappings, unmapped, outputs >>

Init ==
    /\ pc = "category"
    /\ ebay_categories \in DistinctSeqs(CategoryPool, MaxCats)
    /\ scanium_subtypes \in DistinctSeqs(SubtypePool, MaxSubs)
    /\ ci = 1
    /\ si = 1
    /\ best_match = << >>
    /\ best_confidence = "None"
    /\ last = NoMatch
    /\ mappings = << >>
    /\ unmapped = << >>
    /\ outputs = << >>
    /\ ebay_name = << >>
    /\ scanium_id = << >>
    /\ scanium_name = << >>
    /\ result = NoMatch
    /\ tree_data = << >>
    /\ flat_categories = << >>
    /\ raised = ""
    /\ run = 1
    /\ previous = << >>
    /\ existing = << >>
    /\ new_brands = << >>
    /\ returned = << >>
    /\ payload = << >>
    /\ validation = << >>
    /\ catalog = << >>
    /\ updates = 0

\* lines 143-150: the next category is taken, the best candidate is reset
NextCategory ==
    /\ pc = "category"
    /\ ci <= Len(ebay_categories)
    /\ best_match' = << >>
    /\ best_confidence' = "None"
    /\ si' = 1
    /\ pc' = "subtype"
    /\ UNCHANGED << ebay_categories, scanium_subtypes, ci, last, mappings,
                    unmapped, outputs, scoreVars, flatVars, runVars, brandVars >>

\* lines 152-166: one subtype is scored against the current category
ScoreSubtype ==
    /\ pc = "subtype"
    /\ si <= Len(scanium_subtypes)
    /\ LET scanium_subtype == scanium_subtypes[si]
           r == match_confidence(ebay_categories[ci].name,
                                 scanium_subtype.id, scanium_subtype.displayName)
       IN  /\ last' = r
           /\ IF r[1] /\ ShouldReplace(best_match, best_confidence, r[2])
              THEN /\ best_match' = << scanium_subtype >>
                   /\ best_confidence' = r[2]
              ELSE UNCHANGED << best_match, best_confidence >>
    /\ si' = si + 1
    /\ UNCHANGED << pc, ebay_categories, scanium_subtypes, ci, mappings,
                    unmapped, outputs, scoreVars, flatVars, runVars, brandVars >>

\* lines 168-182: the record of the current category is appended
EmitRecord ==
    /\ pc = "subtype"
    /\ si > Len(scanium_subtypes)
    /\ mappings' = EmitMappings(mappings, ebay_categories[ci], best_match, best_confidence)
    /\ unmapped' = EmitUnmapped(unmapped, ebay_categories[ci], best_match)
    /\ ci' = ci + 1
    /\ pc' = "category"
    /\ UNCHANGED << ebay_categories, scanium_subtypes, si, best_match,
                    best_confidence, last, outputs, scoreVars, flatVars, runVars, brandVars >>

\* lines 184-203: the two documents are written
WriteOutputs ==
    /\ pc = "category"
    /\ ci > Len(ebay_categories)
    /\ outputs' =
          << [totalMapped |-> Len(mappings), totalUnmapped |-> Len(unmapped),
              records |-> mappings],
             [totalMapped |-> 0, totalUnmapped |-> Len(unmapped),
              records |-> unmapped] >>
    /\ pc' = "summary"
    /\ UNCHANGED << ebay_categories, scanium_subtypes, ci, si, best_match,
                    best_confidence, last, mappings, unmapped, scoreVars, flatVars, runVars, brandVars >>

\* lines 205-221: the summary divides by the number of categories
PrintSummary ==
    /\ pc = "summary"
    /\ pc' = IF Len(ebay_categories) = 0 THEN "ZeroDivisionError" ELSE "return 0"
    /\ UNCHANGED << mapVars, scoreVars, flatVars, runVars, brandVars >>

Next == NextCategory \/ ScoreSubtype \/ EmitRecord \/ WriteOutputs \/ PrintSummary

Spec == Init /\ [][Next]_vars

(***************************************************************************)
(* The scorer on its own: one call of match_confidence on given arguments. *)
(***************************************************************************)
InitScore ==
    /\ pc = "call"
    /\ ebay_name \in Names
    /\ scanium_id \in ScoreIds
    /\ scanium_name \in ScoreDisplayNames
    /\ result = NoMatch
    /\ ebay_categories = << >>
    /\ scanium_subtypes = << >>
    /\ ci = 1
    /\ si = 1
    /\ best_match = << >>
    /\ best_confidence = "None"
    /\ last = NoMatch
    /\ mappings = << >>
    /\ unmapped = << >>
    /\ outputs = << >>
    /\ tree_data = << >>
    /\ flat_categories = << >>
    /\ raised = ""
    /\ run = 1
    /\ previous = << >>
    /\ existing = << >>
    /\ new_brands = << >>
    /\ returned = << >>
    /\ payload = << >>
    /\ validation = << >>
    /\ catalog = << >>
    /\ updates = 0

ScoreCall ==
    /\ pc = "call"
    /\ result' = match_confidence(ebay_name, scanium_id, scanium_name)
    /\ pc' = "returned"
    /\ UNCHANGED << ebay_name, scanium_id, scanium_name, mapVars, flatVars, runVars, brandVars >>

NextScore == ScoreCall

SpecScore == InitScore /\ [][NextScore]_vars

(***************************************************************************)
(* flatten_category_tree.  A dict is a function on its keys; the values    *)
(* reached from tree_data, whose type the code does not check, carry their *)
(* JSON type: [kind, val].  None is PyNone, which is no sequence of        *)
(* characters.  The dicts of the nodes are well typed, keys may be absent. *)
(***************************************************************************)
PyNone == << "None" >>
EmptyDict == [x \in {} |-> x]

JDict(d) == [kind |-> "dict", val |-> d]
JList(xs) == [kind |-> "list", val |-> xs]
JStr(t) == [kind |-> "str", val |-> t]
JNull == [kind |-> "null", val |-> << >>]

\* dict.get(key, default)
get(d, key, default) == IF key \in DOMAIN d THEN d[key] ELSE default

\* truth value of a JSON value
Truthy(v) ==
    CASE v.kind = "null" -> FALSE
      [] v.kind = "dict" -> DOMAIN v.val # {}
      [] v.kind = "list" -> Len(v.val) > 0
      [] v.kind = "str" -> Len(v.val) > 0

\* truth value of a name: "" and None are false
NameTruthy(cat_name) == cat_name # << >> /\ cat_name # PyNone

\* variant: .get("categoryName") without the default
cat_name_of_noDefault(category) == get(category, "categoryName", PyNone)

\* lines 24 and 67
cat_name_of(category) == get(category, "categoryName", << >>)

\* variant: the name is appended also when it is empty
build_path_always(path, cat_name) == Append(path, cat_name)

\* lines 34 and 68
build_path(path, cat_name) ==
    IF NameTruthy(cat_name) THEN Append(path, cat_name) ELSE path

\* line 38
is_leaf_of(node, child_nodes) ==
    get(node, "leafCategoryTreeNode", FALSE) \/ Len(child_nodes) = 0

\* variant: the entry is appended after the children were processed
visit_after(flat_entry, below) == below \o << flat_entry >>

\* lines 49-53 and 76-78: the entry is appended, then the children follow
visit(flat_entry, below) == << flat_entry >> \o below

\* line 27
is_root_id(cat_id) == cat_id = << "0" >>

RECURSIVE traverse_node(_, _, _)
RECURSIVE traverse_nodes(_, _, _, _)
traverse_node(node, path, parent_id) ==
    LET category == get(node, "category", EmptyDict)
        cat_id == get(category, "categoryId", PyNone)
        cat_name == cat_name_of(category)
        current_path == build_path(path, cat_name)
        child_nodes == get(node, "childCategoryTreeNodes", << >>)
    IN  IF is_root_id(cat_id)
        THEN traverse_nodes(child_nodes, 1, << >>, cat_id)
        ELSE visit([ebayCategoryId |-> cat_id,
                    name |-> cat_name,
                    path |-> current_path,
                    parentId |-> parent_id,
                    leafFlag |-> is_leaf_of(node, child_nodes),
                    level |-> get(node, "categoryTreeNodeLevel", Len(current_path))],
                   traverse_nodes(child_nodes, 1, current_path, cat_id))

\* for child_node in ...: traverse_node(child_node, path, parent_id)
traverse_nodes(nodes, k, path, parent_id) ==
    IF k > Len(nodes) THEN << >>
    ELSE traverse_node(nodes[k], path, parent_id)
            \o traverse_nodes(nodes, k + 1, path, parent_id)

RECURSIVE traverse_old(_, _)
RECURSIVE traverse_olds(_, _, _)
traverse_old(category, path) ==
    LET cat_id == get(category, "categoryId", PyNone)
        cat_name == cat_name_of(category)
        current_path == build_path(path, cat_name)
    IN  visit([ebayCategoryId |-> cat_id,
               name |-> cat_name,
               path |-> current_path,
               parentId |-> get(category, "parentCategoryId", PyNone),
               leafFlag |-> Len(get(category, "subcategories", << >>)) = 0],
              traverse_olds(get(category, "subcategories", << >>), 1, current_path))

\* for sub_cat in ...: traverse_old(sub_cat, path)
traverse_olds(cats, k, path) ==
    IF k > Len(cats) THEN << >>
    ELSE traverse_old(cats[k], path) \o traverse_olds(cats, k + 1, path)

Returned(xs) == [raised |-> "", value |-> xs]
Raised(e) == [raised |-> e, value |-> << >>]

\* lines 80-84: the legacy list is chosen and iterated
legacy_categories(td, category_tree) ==
    LET inTree == get(category_tree, "categories", JList(<< >>))
    IN  IF ~Truthy(inTree) THEN get(td, "categories", JList(<< >>)) ELSE inTree

flatten_legacy(categories) ==
    CASE categories.kind = "list" -> Returned(traverse_olds(categories.val, 1, << >>))
      [] categories.kind = "null" -> Raised("TypeError")
      [] categories.kind = "str" ->
            IF Len(categories.val) = 0 THEN Returned(<< >>) ELSE Raised("AttributeError")
      [] categories.kind = "dict" ->
            IF DOMAIN categories.val = {} THEN Returned(<< >>) ELSE Raised("AttributeError")

flatten_category_tree(td) ==
    LET category_tree == get(td, "categoryTree", JDict(EmptyDict))
    IN  IF category_tree.kind # "dict" THEN Raised("AttributeError")
        ELSE LET root_node == get(category_tree.val, "rootCategoryNode", JNull)
             IN  IF Truthy(root_node)
                 THEN IF root_node.kind = "dict"
                      THEN Returned(traverse_node(root_node.val, << >>, PyNone))
                      ELSE Raised("AttributeError")
                 ELSE flatten_legacy(legacy_categories(td, category_tree.val))

(***************************************************************************)
(* Input trees: every ordered forest of at most MaxNodes nodes, in the     *)
(* node form under a root and in the legacy form, the node at position p   *)
(* named and numbered after p, with at most one irregular node.            *)
(***************************************************************************)
RECURSIVE ForestsOf(_)
ForestsOf(n) ==
    IF n = 0 THEN { << >> }
    ELSE UNION { { << t >> \o f : t \in ForestsOf(k - 1), f \in ForestsOf(n - k) } :
                 k \in 1..n }

Shapes == UNION { ForestsOf(n) : n \in 0..MaxNodes }

RECURSIVE PositionsOf(_)
PositionsOf(f) ==
    UNION { { << k >> } \cup { << k >> \o q : q \in PositionsOf(f[k]) } : k \in 1..Len(f) }

Letters == << "A", "B", "C", "D", "E", "F", "G", "H", "I" >>
Digits == << "1", "2", "3", "4", "5", "6", "7", "8", "9" >>

NameOf(p) ==
    IF Len(p) = 0 THEN <<"R","o","o","t">>
    ELSE << Letters[p[1]] >> \o [k \in 1..(Len(p) - 1) |-> Digits[p[k + 1]]]

IdOf(p) == IF Len(p) = 0 THEN << "R" >> ELSE [k \in 1..Len(p) |-> Digits[p[k]]]

Irregularities ==
    { "noId", "noName", "emptyName", "noCategory", "rootId", "plainRoot",
      "leafTrue", "leafFalse", "level", "noParent" }

NoIrregularity == [at |-> << 0 >>, what |-> "none"]

Has(irr, p, what) == irr.at = p /\ irr.what = what

When(cond, key, value) == IF cond THEN key :> value ELSE EmptyDict

CategoryOf(p, irr) ==
    When(~Has(irr, p, "noId"), "categoryId",
         IF Has(irr, p, "rootId") \/ (Len(p) = 0 /\ ~Has(irr, p, "plainRoot"))
         THEN << "0" >> ELSE IdOf(p))
    @@ When(~Has(irr, p, "noName"), "categoryName",
            IF Has(irr, p, "emptyName") THEN << >> ELSE NameOf(p))

RECURSIVE BuildNode(_, _, _)
BuildNode(t, p, irr) ==
    When(~Has(irr, p, "noCategory"), "category", CategoryOf(p, irr))
    @@ When(Len(t) > 0 \/ ~Has(irr, p, "leafTrue"), "childCategoryTreeNodes",
            [k \in 1..Len(t) |-> BuildNode(t[k], Append(p, k), irr)])
    @@ When(Has(irr, p, "leafTrue") \/ Has(irr, p, "leafFalse"),
            "leafCategoryTreeNode", Has(irr, p, "leafTrue"))
    @@ When(Has(irr, p, "level"), "categoryTreeNodeLevel", Len(p))

RECURSIVE BuildOld(_, _, _)
BuildOld(t, p, irr) ==
    CategoryOf(p, irr)
    @@ When(~Has(irr, p, "noParent"), "parentCategoryId",
            IF Len(p) = 1 THEN << "0" >> ELSE IdOf(SubSeq(p, 1, Len(p) - 1)))
    @@ When(Len(t) > 0, "subcategories",
            [k \in 1..Len(t) |-> BuildOld(t[k], Append(p, k), irr)])
    @@ When(Has(irr, p, "level"), "categoryTreeNodeLevel", Len(p))

\* the response of the Taxonomy API: a root node with id "0" over the forest
NodeFormTree(f, irr) ==
    "categoryTree" :> JDict(
        ("categoryTreeId" :> JStr(<< "3" >>))
        @@ ("rootCategoryNode" :> JDict(BuildNode(f, << >>, irr))))

\* the mock structure: the list of top-level categories
LegacyTree(f, irr, nested) ==
    LET cats == JList([k \in 1..Len(f) |-> BuildOld(f[k], << k >>, irr)])
    IN  IF nested
        THEN "categoryTree" :> JDict(("rootId" :> JStr(<< "0" >>)) @@ ("categories" :> cats))
        ELSE ("marketplace" :> JStr(<<"E","B","A","Y","_","G","B">>)) @@ ("categories" :> cats)

\* inputs in which neither form is present, with keys and values of any type
OtherInputs ==
    << EmptyDict,
      "status" :> JStr(<<"M","O","C","K","_","D","A","T","A">>),
      "categoryTree" :> JDict(EmptyDict),
      "categoryTree" :> JDict("rootCategoryNode" :> JNull),
      "categoryTree" :> JDict("rootCategoryNode" :> JDict(EmptyDict)),
      "categoryTree" :> JDict("categories" :> JList(<< >>)),
      "categoryTree" :> JDict("categories" :> JNull),
      "categoryTree" :> JNull,
      "categoryTree" :> JList(<< >>),
      "categoryTree" :> JStr(<<"t","r","e","e">>),
      "categories" :> JList(<< >>),
      "categories" :> JNull,
      "categories" :> JStr(<<"n","o","n","e">>),
      "categories" :> JDict(EmptyDict),
      "categories" :> JDict("total" :> JStr(<< "0" >>)),
      ("categoryTree" :> JDict("rootCategoryNode" :> JNull)) @@ ("categories" :> JNull) >>

IrregularitiesOf(f) ==
    { NoIrregularity } \cup
    { [at |-> p, what |-> w] : p \in PositionsOf(f) \cup { << >> }, w \in Irregularities }

(***************************************************************************)
(* The flattener on its own: one call of flatten_category_tree.            *)
(***************************************************************************)
InitFlatten ==
    /\ pc = "flatten"
    /\ \/ \E f \in Shapes : \E irr \in IrregularitiesOf(f) :
             \/ tree_data = NodeFormTree(f, irr)
             \/ tree_data = LegacyTree(f, irr, TRUE)
             \/ tree_data = LegacyTree(f, irr, FALSE)
       \/ \E k \in 1..Len(OtherInputs) : tree_data = OtherInputs[k]
    /\ flat_categories = << >>
    /\ raised = ""
    /\ ebay_name = << >>
    /\ scanium_id = << >>
    /\ scanium_name = << >>
    /\ result = NoMatch
    /\ ebay_categories = << >>
    /\ scanium_subtypes = << >>
    /\ ci = 1
    /\ si = 1
    /\ best_match = << >>
    /\ best_confidence = "None"
    /\ last = NoMatch
    /\ mappings = << >>
    /\ unmapped = << >>
    /\ outputs = << >>
    /\ run = 1
    /\ previous = << >>
    /\ existing = << >>
    /\ new_brands = << >>
    /\ returned = << >>
    /\ payload = << >>
    /\ validation = << >>
    /\ catalog = << >>
    /\ updates = 0

FlattenCall ==
    /\ pc = "flatten"
    /\ LET r == flatten_category_tree(tree_data)
       IN  /\ flat_categories' = r.value
           /\ raised' = r.raised
           /\ pc' = IF r.raised = "" THEN "flattened" ELSE "flatten raised"
    /\ UNCHANGED << tree_data, mapVars, scoreVars, runVars, brandVars >>

NextFlatten == FlattenCall

SpecFlatten == InitFlatten /\ [][NextFlatten]_vars

(***************************************************************************)
(* The pipeline: flatten_taxonomy writes the flat categories, and          *)
(* map_categories reads them and maps them.  The two scripts are run       *)
(* again and again in the same directory: every run finds the files and    *)
(* the values that the run before it left behind.  The first run may be    *)
(* followed by a run on another tree; the later runs repeat that tree.     *)
(***************************************************************************)
OldCategory(id, name, level, parent, subs) ==
    ("categoryId" :> id) @@ ("categoryName" :> name)
    @@ ("categoryTreeNodeLevel" :> level) @@ ("parentCategoryId" :> parent)
    @@ When(Len(subs) > 0, "subcategories", subs)

\* the document returned by fetch_taxonomy_mock
MockTree ==
    ("status" :> JStr(<<"M","O","C","K","_","D","A","T","A">>))
    @@ ("marketplace" :> JStr(<<"E","B","A","Y","_","G","B">>))
    @@ ("categoryTree" :> JDict(
          ("rootId" :> JStr(<<"0">>))
          @@ ("categoryTreeVersion" :> JStr(<<"m","o","c","k","_","v","e","r","s","i","o","n">>))
          @@ ("categories" :> JList(
                << OldCategory(<<"1","1","2","3","2">>, <<"E","l","e","c","t","r","o","n","i","c","s"," ","&"," ","C","o","m","p","u","t","e","r","s">>, 1, <<"0">>,
                      << OldCategory(<<"1","1","2","3","2">>, <<"L","a","p","t","o","p","s">>, 2, <<"1","1","2","3","2">>, << >>),
                         OldCategory(<<"1","1","1">>, <<"M","o","n","i","t","o","r","s">>, 2, <<"1","1","2","3","2">>, << >>) >>),
                   OldCategory(<<"5","5","0">>, <<"H","o","m","e"," ","&"," ","G","a","r","d","e","n">>, 1, <<"0">>,
                      << OldCategory(<<"1","5","6","8","7">>, <<"F","u","r","n","i","t","u","r","e">>, 2, <<"5","5","0">>, << >>) >>) >>))))

ApiNode(id, name, children) ==
    ("category" :> (("categoryId" :> id) @@ ("categoryName" :> name)))
    @@ When(Len(children) > 0, "childCategoryTreeNodes", children)
    @@ When(Len(children) = 0, "leafCategoryTreeNode", TRUE)

\* a response of the Taxonomy API: a root "0" over three categories
ApiTree ==
    "categoryTree" :> JDict(
        ("categoryTreeId" :> JStr(<<"3">>))
        @@ ("rootCategoryNode" :> JDict(
              ApiNode(<<"0">>, <<"R","o","o","t">>,
                 << ApiNode(<<"1","7","7">>, <<"G","a","m","i","n","g"," ","L","a","p","t","o","p">>,
                       << ApiNode(<<"1","7","5">>, <<"N","o","t","e","b","o","o","k"," ","C","o","m","p","u","t","e","r","s">>, << >>) >>),
                    ApiNode(<<"9","0","0","0">>, <<"W","i","d","g","e","t","s">>, << >>) >>))))

\* a tree, another tree, and a document in which no tree is recognized
PipelineTrees == << MockTree, ApiTree, "status" :> JStr(<<"M","O","C","K","_","D","A","T","A">>) >>

\* flatten_taxonomy, lines 110-115: the document written for map_categories
flat_document(td, flat) ==
    ("source" :> JStr(<<"e","b","a","y","_","c","a","t","e","g","o","r","y","_","t","r","e","e",".","j","s","o","n">>))
    @@ ("marketplace" :> get(td, "marketplace", JStr(<<"E","B","A","Y","_","G","B">>)))
    @@ ("totalCategories" :> Len(flat))
    @@ ("categories" :> flat)

\* map_categories, line 133
read_categories(ebay_data) == get(ebay_data, "categories", << >>)

InitPipeline ==
    /\ pc = "flatten"
    /\ \E k \in 1..Len(PipelineTrees) : tree_data = PipelineTrees[k]
    /\ scanium_subtypes \in DistinctSeqs(SubtypePool, MaxSubs)
    /\ flat_categories = << >>
    /\ raised = ""
    /\ ebay_name = << >>
    /\ scanium_id = << >>
    /\ scanium_name = << >>
    /\ result = NoMatch
    /\ ebay_categories = << >>
    /\ ci = 1
    /\ si = 1
    /\ best_match = << >>
    /\ best_confidence = "None"
    /\ last = NoMatch
    /\ mappings = << >>
    /\ unmapped = << >>
    /\ outputs = << >>
    /\ run = 1
    /\ previous = << >>
    /\ existing = << >>
    /\ new_brands = << >>
    /\ returned = << >>
    /\ payload = << >>
    /\ validation = << >>
    /\ catalog = << >>
    /\ updates = 0

\* variant: the two lists are not created anew when the pass starts, so
\* the records are appended to what the lists already hold
LoadCategories_accumulating ==
    /\ pc = "flattened"
    /\ ebay_categories' = read_categories(flat_document(tree_data, flat_categories))
    /\ ci' = 1
    /\ pc' = "category"
    /\ UNCHANGED << scanium_subtypes, si, best_match, best_confidence, last,
                    mappings, unmapped, outputs, scoreVars, flatVars, runVars,
                    brandVars >>

\* flatten_taxonomy lines 110-118 and map_categories lines 124-141: the flat
\* categories are written, read back, and the two lists start empty
LoadCategories ==
    /\ pc = "flattened"
    /\ ebay_categories' = read_categories(flat_document(tree_data, flat_categories))
    /\ ci' = 1
    /\ mappings' = << >>
    /\ unmapped' = << >>
    /\ pc' = "category"
    /\ UNCHANGED << scanium_subtypes, si, best_match, best_confidence, last,
                    outputs, scoreVars, flatVars, runVars, brandVars >>

\* the two scripts are started again; nothing is cleared between the runs.
\* After the first run the tree may be replaced, after that it stays, and
\* what the finished run produced is kept for comparison.
Rerun ==
    /\ pc \in { "return 0", "ZeroDivisionError" }
    /\ run < MaxRuns
    /\ IF run = 1
       THEN /\ \E k \in 1..Len(PipelineTrees) : tree_data' = PipelineTrees[k]
            /\ previous' = << >>
       ELSE /\ tree_data' = tree_data
            /\ previous' = << mappings, unmapped, outputs >>
    /\ run' = run + 1
    /\ pc' = "flatten"
    /\ UNCHANGED << flat_categories, raised, mapVars, scoreVars, brandVars >>

NextPipeline ==
    \/ FlattenCall \/ LoadCategories \/ NextCategory \/ ScoreSubtype
    \/ EmitRecord \/ WriteOutputs \/ PrintSummary \/ Rerun

SpecPipeline == InitPipeline /\ [][NextPipeline]_vars

(***************************************************************************)
(* append_brands_bundle (scripts/domainpack): normalize_brand,             *)
(* dedupe_brands and merge_brands.                                         *)
(***************************************************************************)
Whitespace == {" ", "\t", "\n", "\r", "\f"}

\* the characters of the model in the order of their code points
CodePointOrder ==
    << "\t", "\n", "\f", "\r", " ", "&", "-",
       "0", "1", "2", "3", "4", "5", "6", "7", "8", "9",
       "A", "B", "C", "D", "E", "F", "G", "H", "I", "J", "K", "L", "M",
       "N", "O", "P", "Q", "R", "S", "T", "U", "V", "W", "X", "Y", "Z", "_",
       "a", "b", "c", "d", "e", "f", "g", "h", "i", "j", "k", "l", "m",
       "n", "o", "p", "q", "r", "s", "t", "u", "v", "w", "x", "y", "z" >>

ord(c) == CHOOSE i \in 1..Len(CodePointOrder) : CodePointOrder[i] = c

\* Python a < b for two str values
StrLess(a, b) ==
    \E k \in 1..Len(b) :
        /\ \A j \in 1..(k - 1) : j <= Len(a) /\ a[j] = b[j]
        /\ (k > Len(a) \/ ord(a[k]) < ord(b[k]))

\* sorted(keys) for a collection of distinct str values
sorted(keys) ==
    [k \in 1..Cardinality(keys) |->
        CHOOSE x \in keys : Cardinality({ y \in keys : StrLess(y, x) }) = k - 1]

RECURSIVE lstrip(_)
lstrip(text) ==
    IF Len(text) > 0 /\ text[1] \in Whitespace THEN lstrip(Tail(text)) ELSE text

RECURSIVE rstrip(_)
rstrip(text) ==
    IF Len(text) > 0 /\ text[Len(text)] \in Whitespace
    THEN rstrip(SubSeq(text, 1, Len(text) - 1)) ELSE text

\* lines 53-55: brand.strip()
normalize_brand(brand) == rstrip(lstrip(brand))

\* variant: a later occurrence overwrites the casing of an earlier one
remember_overwrite(seen_lower, key, normalized) ==
    [k \in DOMAIN seen_lower \cup { key } |->
        IF k = key THEN normalized ELSE seen_lower[k]]

\* lines 70-71: the casing of the first occurrence is kept
remember(seen_lower, key, normalized) ==
    IF key \in DOMAIN seen_lower THEN seen_lower
    ELSE [k \in DOMAIN seen_lower \cup { key } |->
             IF k = key THEN normalized ELSE seen_lower[k]]

\* lines 65-71: the loop over the brands
RECURSIVE seen_loop(_, _, _)
seen_loop(brands, k, seen_lower) ==
    IF k > Len(brands) THEN seen_lower
    ELSE LET normalized == normalize_brand(brands[k])
         IN  IF normalized = << >>
             THEN seen_loop(brands, k + 1, seen_lower)
             ELSE seen_loop(brands, k + 1,
                            remember(seen_lower, lower(normalized), normalized))

\* lines 58-74
dedupe_brands(brands) ==
    LET seen_lower == seen_loop(brands, 1, << >>)
        keys == sorted(DOMAIN seen_lower)
    IN  [k \in 1..Len(keys) |-> seen_lower[keys[k]]]

\* variant: the new brands come first
merge_brands_newFirst(old, fresh) == dedupe_brands(fresh \o old)

\* lines 103-106
merge_brands(old, fresh) == dedupe_brands(old \o fresh)

(***************************************************************************)
(* The brand lists: casings of one brand, untrimmed and blank entries.     *)
(***************************************************************************)
BrandPool == { <<"A","p","p","l","e">>, <<"a","p","p","l","e">>, <<" ","A","P","P","L","E">>, <<"S","o","n","y">>, <<"d","e","l","l"," ">>, <<" "," ">> }

BrandLists(n) == UNION { [1..m -> BrandPool] : m \in 0..n }

InitBrands ==
    /\ pc = "call"
    /\ existing \in BrandLists(MaxExisting)
    /\ new_brands \in BrandLists(MaxNew)
    /\ returned = << >>
    /\ payload = << >>
    /\ validation = << >>
    /\ catalog = << >>
    /\ updates = 0
    /\ ebay_name = << >>
    /\ scanium_id = << >>
    /\ scanium_name = << >>
    /\ result = NoMatch
    /\ ebay_categories = << >>
    /\ scanium_subtypes = << >>
    /\ ci = 1
    /\ si = 1
    /\ best_match = << >>
    /\ best_confidence = "None"
    /\ last = NoMatch
    /\ mappings = << >>
    /\ unmapped = << >>
    /\ outputs = << >>
    /\ tree_data = << >>
    /\ flat_categories = << >>
    /\ raised = ""
    /\ run = 1
    /\ previous = << >>

otherVars == << mapVars, scoreVars, flatVars, runVars >>

\* dedupe_brands(existing)
DedupeCall ==
    /\ pc = "call"
    /\ returned' = dedupe_brands(existing)
    /\ pc' = "deduped"
    /\ UNCHANGED << existing, new_brands, payload, validation, catalog, updates,
                    otherVars >>

\* merge_brands(existing, new)
MergeCall ==
    /\ pc = "call"
    /\ returned' = merge_brands(existing, new_brands)
    /\ pc' = "merged"
    /\ UNCHANGED << existing, new_brands, payload, validation, catalog, updates,
                    otherVars >>

\* merge_brands(result, new): the same new list is merged into the result
MergeAgain ==
    /\ pc = "merged"
    /\ returned' = merge_brands(returned, new_brands)
    /\ pc' = "merged again"
    /\ UNCHANGED << existing, new_brands, payload, validation, catalog, updates,
                    otherVars >>

NextBrands == DedupeCall \/ MergeCall \/ MergeAgain

SpecBrands == InitBrands /\ [][NextBrands]_vars

(***************************************************************************)
(* validate_payload.  The payload is a Python value of any type; a dict is *)
(* the list of its items <<key, value>> in insertion order, and every      *)
(* value carries its type: [kind, val].                                    *)
(***************************************************************************)
PyDict(items) == [kind |-> "dict", val |-> items]
PyInt(digits) == [kind |-> "int", val |-> digits]

\* key in d, for a str key
HasKey(items, key) ==
    \E i \in 1..Len(items) : items[i][1].kind = "str" /\ items[i][1].val = key

\* d[key]
Lookup(items, key) ==
    items[CHOOSE i \in 1..Len(items) :
             items[i][1].kind = "str" /\ items[i][1].val = key][2]

Invalid(text, about) == << FALSE, [text |-> text, about |-> about] >>
Valid == << TRUE, [text |-> "", about |-> << >>] >>

\* variant: a brand that is blank after trimming is accepted
brand_error_blankAccepted(brand, subtype_id) ==
    IF brand.kind # "str"
    THEN Invalid("Brand in {subtype_id} must be string, got {type}",
                 << subtype_id, brand.kind >>)
    ELSE Valid

\* lines 95-98
brand_error(brand, subtype_id) ==
    IF brand.kind # "str"
    THEN Invalid("Brand in {subtype_id} must be string, got {type}",
                 << subtype_id, brand.kind >>)
    ELSE IF normalize_brand(brand.val) = << >>
    THEN Invalid("Empty brand in {subtype_id}", << subtype_id >>)
    ELSE Valid

\* lines 94-98: the loop over the brands of one subtype
RECURSIVE brands_loop(_, _, _)
brands_loop(brands, k, subtype_id) ==
    IF k > Len(brands) THEN Valid
    ELSE LET r == brand_error(brands[k], subtype_id)
         IN  IF r[1] THEN brands_loop(brands, k + 1, subtype_id) ELSE r

\* lines 89-98: the loop over the items of brandsBySubtype
RECURSIVE items_loop(_, _)
items_loop(items, i) ==
    IF i > Len(items) THEN Valid
    ELSE LET subtype_id == items[i][1]
             brands == items[i][2]
         IN  IF subtype_id.kind # "str"
             THEN Invalid("Subtype ID must be string, got {type}", << subtype_id.kind >>)
             ELSE IF brands.kind # "list"
             THEN Invalid("Brands for {subtype_id} must be a list, got {type}",
                          << subtype_id.val, brands.kind >>)
             ELSE LET r == brands_loop(brands.val, 1, subtype_id.val)
                  IN  IF r[1] THEN items_loop(items, i + 1) ELSE r

\* lines 77-100
validate_payload(p) ==
    IF p.kind # "dict" THEN Invalid("Payload must be a JSON object", << >>)
    ELSE IF ~HasKey(p.val, <<"b","r","a","n","d","s","B","y","S","u","b","t","y","p","e">>)
    THEN Invalid("Payload must contain 'brandsBySubtype' key", << >>)
    ELSE LET brands_by_subtype == Lookup(p.val, <<"b","r","a","n","d","s","B","y","S","u","b","t","y","p","e">>)
         IN  IF brands_by_subtype.kind # "dict"
             THEN Invalid("'brandsBySubtype' must be an object", << >>)
             ELSE items_loop(brands_by_subtype.val, 1)

(***************************************************************************)
(* The payloads.  A choice of brands is a tuple of indices into            *)
(* BrandValues, or one of three values that are not lists.                 *)
(***************************************************************************)
BrandValues == << JStr(<<"A","p","p","l","e">>), JStr(<<" ","s","o","n","y"," ">>), JStr(<<" "," ">>), PyInt(<<"1","2","3">>) >>

SubtypeKeys ==
    << JStr(<<"e","l","e","c","t","r","o","n","i","c","s","_","l","a","p","t","o","p">>), JStr(<<"e","l","e","c","t","r","o","n","i","c","s","_","p","h","o","n","e">>), PyInt(<<"1","2","3">>) >>

NotAList == { << 0 - 1 >>, << 0 - 2 >>, << 0 - 3 >> }

\* the choices of lists of at most n of the first b brand values
BrandChoices(n, b) == UNION { [1..m -> 1..b] : m \in 0..n }

BrandsOf(c) ==
    IF c = << 0 - 1 >> THEN JStr(<<"A","p","p","l","e">>)
    ELSE IF c = << 0 - 2 >> THEN JNull
    ELSE IF c = << 0 - 3 >> THEN PyDict(<< >>)
    ELSE JList([i \in 1..Len(c) |-> BrandValues[c[i]]])

\* the choices of at most two items with different keys among the first k
ItemChoices(k, brandChoices) ==
    { << >> }
    \cup { << << a, c >> >> : a \in 1..k, c \in brandChoices }
    \cup { << << ab[1], c >>, << ab[2], d >> >> :
             ab \in { x \in (1..k) \X (1..k) : x[1] # x[2] },
             c \in brandChoices, d \in brandChoices }

ItemsOf(ic) == [i \in 1..Len(ic) |-> << SubtypeKeys[ic[i][1]], BrandsOf(ic[i][2]) >>]

PayloadOf(ic) == PyDict(<< << JStr(<<"b","r","a","n","d","s","B","y","S","u","b","t","y","p","e">>), PyDict(ItemsOf(ic)) >> >>)

\* payloads that are no object, lack the key, or carry no object under it
OtherPayloads ==
    << JNull, JList(<< >>), JStr(<<"b","r","a","n","d","s","B","y","S","u","b","t","y","p","e">>), PyInt(<<"1","2","3">>),
       PyDict(<< >>),
       PyDict(<< << JStr(<<"b","r","a","n","d","s">>), PyDict(<< >>) >> >>),
       PyDict(<< << JStr(<<"b","r","a","n","d","s","B","y","S","u","b","t","y","p","e">>), JList(<< >>) >> >>),
       PyDict(<< << JStr(<<"b","r","a","n","d","s","B","y","S","u","b","t","y","p","e">>), JNull >> >>),
       PyDict(<< << JStr(<<"b","r","a","n","d","s","B","y","S","u","b","t","y","p","e">>), JStr(<<"A","p","p","l","e">>) >> >>),
       PyDict(<< << JStr(<<"v","e","r","s","i","o","n">>), JStr(<<"1",".","0",".","0">>) >>,
                 << JStr(<<"b","r","a","n","d","s","B","y","S","u","b","t","y","p","e">>),
                    PyDict(<< << JStr(<<"e","l","e","c","t","r","o","n","i","c","s","_","l","a","p","t","o","p">>),
                                 JList(<< JStr(<<"A","p","p","l","e">>) >>) >> >>) >> >>) >>

InitValidate ==
    /\ pc = "call"
    /\ \/ \E k \in 1..Len(OtherPayloads) : payload = OtherPayloads[k]
       \/ \E ic \in ItemChoices(Len(SubtypeKeys),
                                BrandChoices(MaxPayloadBrands, Len(BrandValues))
                                \cup NotAList) :
             payload = PayloadOf(ic)
    /\ validation = << >>
    /\ existing = << >>
    /\ new_brands = << >>
    /\ returned = << >>
    /\ catalog = << >>
    /\ updates = 0
    /\ ebay_name = << >>
    /\ scanium_id = << >>
    /\ scanium_name = << >>
    /\ result = NoMatch
    /\ ebay_categories = << >>
    /\ scanium_subtypes = << >>
    /\ ci = 1
    /\ si = 1
    /\ best_match = << >>
    /\ best_confidence = "None"
    /\ last = NoMatch
    /\ mappings = << >>
    /\ unmapped = << >>
    /\ outputs = << >>
    /\ tree_data = << >>
    /\ flat_categories = << >>
    /\ raised = ""
    /\ run = 1
    /\ previous = << >>

ValidateCall ==
    /\ pc = "call"
    /\ validation' = validate_payload(payload)
    /\ pc' = "validated"
    /\ UNCHANGED << existing, new_brands, returned, payload, catalog, updates,
                    otherVars >>

NextValidate == ValidateCall

SpecValidate == InitValidate /\ [][NextValidate]_vars

(***************************************************************************)
(* apply_update and main.  The catalog is the content of the file          *)
(* brands_catalog_bundle_v1.json; its brandsBySubtype is a function from   *)
(* subtype ids to brand lists (the file is written with sorted keys).      *)
(***************************************************************************)
Catalog(version, brands_by_subtype) ==
    [id |-> "brands_catalog", version |-> version,
     description |-> "Brand catalog for Scanium domain pack subtypes",
     brandsBySubtype |-> brands_by_subtype]

\* the subtype ids of a valid payload
PayloadSubtypes(p) ==
    LET items == Lookup(p.val, <<"b","r","a","n","d","s","B","y","S","u","b","t","y","p","e">>).val
    IN  { items[i][1].val : i \in 1..Len(items) }

\* payload["brandsBySubtype"][subtype_id] as a list of str
PayloadBrands(p, subtype_id) ==
    LET brands == Lookup(Lookup(p.val, <<"b","r","a","n","d","s","B","y","S","u","b","t","y","p","e">>).val, subtype_id).val
    IN  [k \in 1..Len(brands) |-> brands[k].val]

\* variant: the brands of the payload replace the brands of the catalog
new_list_replace(cat, p, subtype_id) == dedupe_brands(PayloadBrands(p, subtype_id))

\* lines 120-122
new_list(cat, p, subtype_id) ==
    merge_brands(get(cat.brandsBySubtype, subtype_id, << >>),
                 PayloadBrands(p, subtype_id))

\* lines 126-128
kept_subtypes(cat, p) == DOMAIN cat.brandsBySubtype \ PayloadSubtypes(p)

\* lines 115-132: the updated catalog
updated_catalog(cat, p) ==
    [cat EXCEPT !.brandsBySubtype =
        [subtype_id \in PayloadSubtypes(p) \cup kept_subtypes(cat, p) |->
            IF subtype_id \in PayloadSubtypes(p)
            THEN new_list(cat, p, subtype_id)
            ELSE cat.brandsBySubtype[subtype_id]]]

\* lines 109-166: the catalog in the file after the call
apply_update(cat, p, dry_run) ==
    IF dry_run THEN cat ELSE updated_catalog(cat, p)

\* load_existing_catalog: the structure created when there is no file, a
\* file written by an earlier run, and a file edited by hand
InitialCatalogs ==
    << Catalog("1.0.0", EmptyDict),
       Catalog("1.0.0",
               (<<"e","l","e","c","t","r","o","n","i","c","s","_","l","a","p","t","o","p">> :> << <<"A","p","p","l","e">>, <<"D","e","l","l">> >>)
               @@ (<<"f","u","r","n","i","t","u","r","e","_","s","o","f","a">> :> << <<"I","K","E","A">> >>)),
       Catalog("2.0.0",
               (<<"e","l","e","c","t","r","o","n","i","c","s","_","l","a","p","t","o","p">> :> << <<"d","e","l","l"," ">>, <<"a","p","p","l","e">>, << >>, <<"A","p","p","l","e">> >>)
               @@ (<<"f","u","r","n","i","t","u","r","e","_","s","o","f","a">> :> << <<"I","K","E","A">>, <<"i","k","e","a">> >>)) >>

InitCatalog ==
    /\ pc = "shell"
    /\ \E k \in 1..Len(InitialCatalogs) : catalog = InitialCatalogs[k]
    /\ updates = 0
    /\ payload = << >>
    /\ validation = << >>
    /\ existing = << >>
    /\ new_brands = << >>
    /\ returned = << >>
    /\ ebay_name = << >>
    /\ scanium_id = << >>
    /\ scanium_name = << >>
    /\ result = NoMatch
    /\ ebay_categories = << >>
    /\ scanium_subtypes = << >>
    /\ ci = 1
    /\ si = 1
    /\ best_match = << >>
    /\ best_confidence = "None"
    /\ last = NoMatch
    /\ mappings = << >>
    /\ unmapped = << >>
    /\ outputs = << >>
    /\ tree_data = << >>
    /\ flat_categories = << >>
    /\ raised = ""
    /\ run = 1
    /\ previous = << >>

\* main, lines 208-230, on a payload p
main(p, dry_run) ==
    /\ pc = "shell"
    /\ updates < MaxUpdates
    /\ payload' = p
    /\ validation' = validate_payload(p)
    /\ catalog' = IF validation'[1] THEN apply_update(catalog, p, dry_run) ELSE catalog
    /\ updates' = updates + 1
    /\ UNCHANGED << pc, existing, new_brands, returned, otherVars >>

\* one run of the script on a payload of the first two subtypes and brands
AppendBrands ==
    \E ic \in ItemChoices(2, BrandChoices(MaxNew, 2)) :
        \E dry_run \in BOOLEAN : main(PayloadOf(ic), dry_run)

\* one run of the script on a payload that validate_payload rejects
AppendRejected ==
    \E ic \in { << << 1, << 1, 3 >> >> >>, << << 2, << 0 - 2 >> >> >> } :
        main(PayloadOf(ic), FALSE)

NextCatalog == AppendBrands \/ AppendRejected

SpecCatalog == InitCatalog /\ [][NextCatalog]_vars

(***************************************************************************)
(* Properties of the mapping pass (Spec).                                  *)
(***************************************************************************)
Finished == pc \in {"summary", "return 0", "ZeroDivisionError"}

\* C1: the mapping pass emits exactly one record per flat category, a
\* mapping record or an unmapped record, never both and never neither, so
\* that |mappings| + |unmapped| is the number of categories processed and,
\* at the end, the number of flat categories.
C1_OneRecordPerCategory ==
    /\ [](/\ Len(mappings) + Len(unmapped) = ci - 1
          /\ Finished => Len(mappings) + Len(unmapped) = Len(ebay_categories))
    /\ [][ci' # ci =>
            LET cat == ebay_categories[ci]
            IN  \/ /\ Len(mappings') = Len(mappings) + 1
                   /\ SubSeq(mappings', 1, Len(mappings)) = mappings
                   /\ mappings'[Len(mappings')].ebayCategoryId = cat.ebayCategoryId
                   /\ mappings'[Len(mappings')].ebayName = cat.name
                   /\ unmapped' = unmapped
                \/ /\ Len(unmapped') = Len(unmapped) + 1
                   /\ SubSeq(unmapped', 1, Len(unmapped)) = unmapped
                   /\ unmapped'[Len(unmapped')] = UnmappedRecord(cat)
                   /\ mappings' = mappings]_vars

C1_Witness ==
    /\ pc = "return 0"
    /\ Len(ebay_categories) = 2
    /\ Len(mappings) = 1
    /\ Len(unmapped) = 1

\* C2: no external category id appears both in a mapping record and in an
\* unmapped record, also when two flat categories carry the same id.
C2_NoIdInBothLists ==
    \A a \in 1..Len(mappings) : \A b \in 1..Len(unmapped) :
        mappings[a].ebayCategoryId # unmapped[b].ebayCategoryId

\* C3: no two mapping records carry the same external category id, and the
\* record of a category is the one of the selected best match.
C3_OneMappingPerExternalId ==
    /\ \A a, b \in 1..Len(mappings) :
          a # b => mappings[a].ebayCategoryId # mappings[b].ebayCategoryId
    /\ (pc = "category" /\ ci > 1 /\ best_match # << >>) =>
          /\ mappings[Len(mappings)].scaniumSubtypeId = best_match[1].id
          /\ mappings[Len(mappings)].confidence = best_confidence

\* C4: while the subtypes of one category are evaluated, once the current
\* best candidate has HIGH confidence no later subtype changes the selected
\* subtype or its confidence.
C4_HighIsNeverReplaced ==
    [][(pc = "subtype" /\ pc' = "subtype" /\ best_confidence = CONFIDENCE_HIGH) =>
          (best_match' = best_match /\ best_confidence' = best_confidence)]_vars

\* a later HIGH candidate was scored while another subtype was the HIGH best
C4_Witness ==
    /\ pc = "subtype"
    /\ si > 2
    /\ best_confidence = CONFIDENCE_HIGH
    /\ last[1]
    /\ last[2] = CONFIDENCE_HIGH
    /\ best_match # << scanium_subtypes[si - 1] >>

\* C5: the first matching subtype becomes the current best; a later matching
\* subtype replaces it only when the later one is HIGH and the current best
\* is LOW; a MEDIUM best is never replaced, and a later MEDIUM or LOW
\* candidate never replaces anything.
C5_ReplacementPolicy ==
    [][(pc = "subtype" /\ pc' = "subtype") =>
          /\ (best_match = << >> /\ last'[1]) =>
                /\ best_match' = << scanium_subtypes[si] >>
                /\ best_confidence' = last'[2]
          /\ (best_match = << >> /\ ~last'[1]) => best_match' = << >>
          /\ (best_match # << >> /\
              << best_match', best_confidence' >> # << best_match, best_confidence >>) =>
                /\ last'[1]
                /\ last'[2] = CONFIDENCE_HIGH
                /\ best_confidence = CONFIDENCE_LOW
          /\ best_confidence = CONFIDENCE_MEDIUM =>
                (best_match' = best_match /\ best_confidence' = best_confidence)
          /\ (best_match # << >> /\ last'[2] \in {CONFIDENCE_MEDIUM, CONFIDENCE_LOW}) =>
                (best_match' = best_match /\ best_confidence' = best_confidence)]_vars

\* a MEDIUM best was kept although a later subtype scored HIGH
C5_Witness ==
    /\ pc = "subtype"
    /\ si > 2
    /\ best_confidence = CONFIDENCE_MEDIUM
    /\ last[1]
    /\ last[2] = CONFIDENCE_HIGH
    /\ best_match # << scanium_subtypes[si - 1] >>

\* the condition of rule 5 for a name and a subtype that is no exact match
WeakOverlapOnly(name, sub) ==
    /\ lower(name) # lower(sub.displayName)
    /\ Len(tokenize(name)) <= 3
    /\ \E k \in 1..Len(tokenize(name)) :
          \/ InList(tokenize(name)[k], tokenize(sub.displayName))
          \/ InList(tokenize(name)[k], tokenize(replace(sub.id, "_", " ")))

\* C6: a category whose name is an exact match of the display name of
\* subtype E and has only a weak token overlap with another subtype W is
\* mapped to E, whichever of E and W comes first in the subtype list.
C6_ExactBeatsWeakOverlap ==
    (pc = "category" /\ ci > 1) =>
        \A e, w \in 1..Len(scanium_subtypes) :
            ( /\ e # w
              /\ lower(ebay_categories[ci - 1].name)
                    = lower(scanium_subtypes[e].displayName)
              /\ WeakOverlapOnly(ebay_categories[ci - 1].name, scanium_subtypes[w]) )
            => /\ Len(mappings) >= 1
               /\ mappings[Len(mappings)].ebayCategoryId
                     = ebay_categories[ci - 1].ebayCategoryId
               /\ mappings[Len(mappings)].scaniumSubtypeId = scanium_subtypes[e].id

(***************************************************************************)
(* Properties of the scorer (SpecScore).                                   *)
(***************************************************************************)
ScenarioA ==
    /\ pc = "returned"
    /\ ebay_name = <<"L","a","p","t","o","p","s">>
    /\ scanium_id = <<"e","l","e","c","t","r","o","n","i","c","s","_","l","a","p","t","o","p">>
    /\ scanium_name = <<"L","a","p","t","o","p">>

\* C7 as stated: scoring "Laptops" against electronics_laptop / "Laptop"
\* returns HIGH through the direct token rule on the token "laptop".
C7_ScenarioA_Stated ==
    ScenarioA =>
        result = << TRUE, CONFIDENCE_HIGH,
                    Reason("Direct token match", << <<"l","a","p","t","o","p">> >>, << >>) >>

\* C7: scoring "Laptops" against electronics_laptop / "Laptop" returns no
\* match: its only token is "laptops", which is not among the tokens of the
\* display name or of the id; the direct token rule gives HIGH on the token
\* "laptop" for a name that carries that token, such as "Laptop Computers".
C7_ScenarioA ==
    /\ ScenarioA => (tokenize(ebay_name) = << <<"l","a","p","t","o","p","s">> >> /\ result = NoMatch)
    /\ ( /\ pc = "returned"
         /\ ebay_name = <<"L","a","p","t","o","p"," ","C","o","m","p","u","t","e","r","s">>
         /\ scanium_id = <<"e","l","e","c","t","r","o","n","i","c","s","_","l","a","p","t","o","p">>
         /\ scanium_name = <<"L","a","p","t","o","p">> ) =>
            result = << TRUE, CONFIDENCE_HIGH,
                        Reason("Direct token match", << <<"l","a","p","t","o","p">> >>, << >>) >>

C7_Witness == ScenarioA /\ ~result[1]

\* some token of the name is verbatim among the display-name or id tokens
HasDirectToken(name, id, display) ==
    \E k \in 1..Len(tokenize(name)) :
        \/ InList(tokenize(name)[k], tokenize(display))
        \/ InList(tokenize(name)[k], tokenize(replace(id, "_", " ")))

\* C8: when the exact rule does not fire and some token of the name is
\* verbatim among the display-name or id tokens, the scorer returns HIGH
\* through the direct token rule, also when an earlier token resolves
\* through the synonym table to a term contained in the id.
C8_DirectBeforeSynonym ==
    ( /\ pc = "returned"
      /\ lower(ebay_name) # lower(scanium_name)
      /\ HasDirectToken(ebay_name, scanium_id, scanium_name) )
    => /\ result[1]
       /\ result[2] = CONFIDENCE_HIGH
       /\ result[3].rule = "Direct token match"

\* C9: whenever the name equals the display name compared case-insensitively
\* as whole strings, the scorer returns HIGH with the reason "Exact name
\* match", whatever the tokens, the synonyms or the id are.
C9_ExactRule ==
    (pc = "returned" /\ lower(ebay_name) = lower(scanium_name)) =>
        result = << TRUE, CONFIDENCE_HIGH, Reason("Exact name match", << >>, << >>) >>

\* an exact match of names that differ in case
C9_Witness ==
    /\ pc = "returned"
    /\ lower(ebay_name) = lower(scanium_name)
    /\ ebay_name # scanium_name
    /\ result[3].rule = "Exact name match"

\* the token resolves to a canonical term that is a substring of the id
ResolvesInto(token, id) ==
    /\ token \in DOMAIN REVERSE_SYNONYMS
    /\ IsSubstring(REVERSE_SYNONYMS[token], lower(id))

ScenarioB ==
    /\ pc = "returned"
    /\ ebay_name = <<"N","o","t","e","b","o","o","k"," ","C","o","m","p","u","t","e","r","s">>
    /\ scanium_id = <<"e","l","e","c","t","r","o","n","i","c","s","_","l","a","p","t","o","p">>
    /\ scanium_name = <<"L","a","p","t","o","p">>

\* C10: when rules 1 and 2 do not fire and some token of the name maps
\* through the synonym index to a canonical term that is a substring of the
\* lower-cased id, the scorer returns MEDIUM with a reason naming the token
\* and the canonical term; Scenario B gives MEDIUM via notebook -> laptop.
C10_SynonymRule ==
    /\ ( /\ pc = "returned"
         /\ lower(ebay_name) # lower(scanium_name)
         /\ ~HasDirectToken(ebay_name, scanium_id, scanium_name)
         /\ \E k \in 1..Len(tokenize(ebay_name)) :
               ResolvesInto(tokenize(ebay_name)[k], scanium_id) )
       => /\ result[1]
          /\ result[2] = CONFIDENCE_MEDIUM
          /\ result[3].rule = "Synonym match"
          /\ \E k \in 1..Len(tokenize(ebay_name)) :
                /\ ResolvesInto(tokenize(ebay_name)[k], scanium_id)
                /\ result[3].tokens = << tokenize(ebay_name)[k],
                                         REVERSE_SYNONYMS[tokenize(ebay_name)[k]] >>
    /\ ScenarioB =>
          result = << TRUE, CONFIDENCE_MEDIUM,
                      Reason("Synonym match", << <<"n","o","t","e","b","o","o","k">>, <<"l","a","p","t","o","p">> >>, << >>) >>

C10_Witness == ScenarioB /\ result[2] = CONFIDENCE_MEDIUM

\* the window of the tokens k and k+1 of the name, joined by one space
Window(name, k) == tokenize(name)[k] \o << " " >> \o tokenize(name)[k + 1]

WindowInSubtype(name, k, id, display) ==
    \/ IsSubstring(Window(name, k), lower(display))
    \/ IsSubstring(Window(name, k), lower(id))

NoSynonymToken(name, id) ==
    \A k \in 1..Len(tokenize(name)) : ~ResolvesInto(tokenize(name)[k], id)

\* C11: when rules 1 to 3 do not fire and some window of two adjacent
\* tokens of the name, joined by one space, is a substring of the
\* lower-cased display name or id, the scorer returns MEDIUM with a reason
\* naming the window; a name of fewer than two tokens never matches by this
\* rule.
C11_BigramRule ==
    /\ ( /\ pc = "returned"
         /\ lower(ebay_name) # lower(scanium_name)
         /\ ~HasDirectToken(ebay_name, scanium_id, scanium_name)
         /\ NoSynonymToken(ebay_name, scanium_id)
         /\ \E k \in 1..(Len(tokenize(ebay_name)) - 1) :
               WindowInSubtype(ebay_name, k, scanium_id, scanium_name) )
       => /\ result[1]
          /\ result[2] = CONFIDENCE_MEDIUM
          /\ result[3].rule = "Multi-token match"
          /\ \E k \in 1..(Len(tokenize(ebay_name)) - 1) :
                /\ WindowInSubtype(ebay_name, k, scanium_id, scanium_name)
                /\ result[3].tokens = << Window(ebay_name, k) >>
    /\ (pc = "returned" /\ result[3].rule = "Multi-token match")
       => Len(tokenize(ebay_name)) >= 2

\* "Book Comp" against the display name "Notebook Computers"
C11_Witness ==
    /\ pc = "returned"
    /\ ebay_name = <<"B","o","o","k"," ","C","o","m","p">>
    /\ scanium_name = <<"N","o","t","e","b","o","o","k"," ","C","o","m","p","u","t","e","r","s">>
    /\ result = << TRUE, CONFIDENCE_MEDIUM,
                   Reason("Multi-token match", << <<"b","o","o","k"," ","c","o","m","p">> >>, << >>) >>

(***************************************************************************)
(* Properties of the unmapped list (Spec).                                 *)
(***************************************************************************)
NoSubtypeMatches(cat) ==
    \A k \in 1..Len(scanium_subtypes) :
        ~match_confidence(cat.name, scanium_subtypes[k].id,
                          scanium_subtypes[k].displayName)[1]

\* C13: a category is placed in the unmapped list if and only if the scorer
\* returns no match for every subtype; with an empty subtype list every
\* category is unmapped and the mapping loop runs to its end; the category
\* "Widgets", to which no subtype is related, is unmapped.
C13_UnmappedIffNoMatch ==
    /\ [][ci' # ci =>
            /\ (unmapped' = Append(unmapped, UnmappedRecord(ebay_categories[ci])))
                  <=> NoSubtypeMatches(ebay_categories[ci])
            /\ (unmapped' = unmapped) <=> ~NoSubtypeMatches(ebay_categories[ci])
            /\ ebay_categories[ci].name = <<"W","i","d","g","e","t","s">> => unmapped' # unmapped]_vars
    /\ []((Len(scanium_subtypes) = 0 /\ Finished) =>
            /\ mappings = << >>
            /\ Len(unmapped) = Len(ebay_categories)
            /\ \A k \in 1..Len(ebay_categories) :
                  unmapped[k] = UnmappedRecord(ebay_categories[k])
            /\ outputs # << >>
            /\ outputs[2].totalUnmapped = Len(ebay_categories))

\* "Widgets" was scored against two subtypes and put in the unmapped list
C13_Witness ==
    /\ pc = "category"
    /\ ci > 1
    /\ Len(scanium_subtypes) = 2
    /\ ebay_categories[ci - 1].name = <<"W","i","d","g","e","t","s">>
    /\ Len(unmapped) >= 1
    /\ unmapped[Len(unmapped)] = UnmappedRecord(ebay_categories[ci - 1])

(***************************************************************************)
(* Properties of the synonym index.                                        *)
(***************************************************************************)
AllSynonymPairs == SynonymPairs(1)

Alternates == { AllSynonymPairs[k][1] : k \in 1..Len(AllSynonymPairs) }

EntriesOf(syn) == { k \in 1..Len(AllSynonymPairs) : AllSynonymPairs[k][1] = syn }

FirstEntry(syn) == CHOOSE k \in EntriesOf(syn) : \A j \in EntriesOf(syn) : k <= j

LastEntry(syn) == CHOOSE k \in EntriesOf(syn) : \A j \in EntriesOf(syn) : k >= j

\* C14 as stated: every alternate maps to one canonical term, and an
\* alternate listed under two canonical entries maps to the entry declared
\* later in the table: "screen" to "television", "gaming pc" to "gaming
\* desktop"; the scorer resolves the token "screen" to "television".
C14_LastWriteWins ==
    /\ DOMAIN REVERSE_SYNONYMS = Alternates
    /\ \A syn \in Alternates :
          REVERSE_SYNONYMS[syn] = AllSynonymPairs[LastEntry(syn)][2]
    /\ REVERSE_SYNONYMS[<<"s","c","r","e","e","n">>] = <<"t","e","l","e","v","i","s","i","o","n">>
    /\ REVERSE_SYNONYMS[<<"g","a","m","i","n","g"," ","p","c">>] = <<"g","a","m","i","n","g"," ","d","e","s","k","t","o","p">>
    /\ (pc = "returned" /\ result[3].rule = "Synonym match"
           /\ result[3].tokens[1] = <<"s","c","r","e","e","n">>)
       => result[3].tokens[2] = <<"t","e","l","e","v","i","s","i","o","n">>

\* C14: every alternate maps to one canonical term, and an alternate listed
\* under two canonical entries maps to the entry declared first in the
\* table: "screen" to "monitor", "gaming pc" to "gaming laptop"; the scorer
\* resolves the token "screen" to "monitor".
C14_FirstWriteWins ==
    /\ DOMAIN REVERSE_SYNONYMS = Alternates
    /\ \A syn \in Alternates :
          REVERSE_SYNONYMS[syn] = AllSynonymPairs[FirstEntry(syn)][2]
    /\ REVERSE_SYNONYMS[<<"s","c","r","e","e","n">>] = <<"m","o","n","i","t","o","r">>
    /\ REVERSE_SYNONYMS[<<"g","a","m","i","n","g"," ","p","c">>] = <<"g","a","m","i","n","g"," ","l","a","p","t","o","p">>
    /\ (pc = "returned" /\ result[3].rule = "Synonym match"
           /\ result[3].tokens[1] = <<"s","c","r","e","e","n">>)
       => result[3].tokens[2] = <<"m","o","n","i","t","o","r">>

\* the token "screen" of "Flat-Screen" was resolved against electronics_monitor
C14_Witness ==
    /\ pc = "returned"
    /\ Cardinality(EntriesOf(<<"s","c","r","e","e","n">>)) = 2
    /\ scanium_id = <<"e","l","e","c","t","r","o","n","i","c","s","_","m","o","n","i","t","o","r">>
    /\ result = << TRUE, CONFIDENCE_MEDIUM,
                   Reason("Synonym match", << <<"s","c","r","e","e","n">>, <<"m","o","n","i","t","o","r">> >>, << >>) >>

(***************************************************************************)
(* Properties of the flattener (SpecFlatten).  The nodes of the input are  *)
(* addressed by their position: << >> is the root node of the node form,   *)
(* << k >> its k-th child or the k-th top-level legacy category.           *)
(***************************************************************************)
\* a root node is detectable: a non-empty dict under categoryTree
IsNodeForm(td) ==
    /\ "categoryTree" \in DOMAIN td
    /\ td["categoryTree"].kind = "dict"
    /\ "rootCategoryNode" \in DOMAIN td["categoryTree"].val
    /\ td["categoryTree"].val["rootCategoryNode"].kind = "dict"
    /\ DOMAIN td["categoryTree"].val["rootCategoryNode"].val # {}

NonEmptyList(d, key) ==
    /\ key \in DOMAIN d
    /\ d[key].kind = "list"
    /\ Len(d[key].val) > 0

\* a non-empty legacy category list is detectable
IsLegacyForm(td) ==
    /\ ~IsNodeForm(td)
    /\ \/ /\ "categoryTree" \in DOMAIN td
          /\ td["categoryTree"].kind = "dict"
          /\ NonEmptyList(td["categoryTree"].val, "categories")
       \/ NonEmptyList(td, "categories")

HasForm == IsNodeForm(tree_data) \/ IsLegacyForm(tree_data)

RootNode == tree_data["categoryTree"].val["rootCategoryNode"].val

KidsOf(n) ==
    IF IsNodeForm(tree_data)
    THEN get(n, "childCategoryTreeNodes", << >>)
    ELSE get(n, "subcategories", << >>)

TopList ==
    IF IsNodeForm(tree_data) THEN KidsOf(RootNode)
    ELSE IF /\ "categoryTree" \in DOMAIN tree_data
            /\ tree_data["categoryTree"].kind = "dict"
            /\ NonEmptyList(tree_data["categoryTree"].val, "categories")
         THEN tree_data["categoryTree"].val["categories"].val
         ELSE tree_data["categories"].val

RECURSIVE PositionsIn(_)
PositionsIn(list) ==
    UNION { { << k >> } \cup { << k >> \o q : q \in PositionsIn(KidsOf(list[k])) } :
            k \in 1..Len(list) }

RECURSIVE NodeIn(_, _)
NodeIn(list, p) ==
    IF Len(p) = 1 THEN list[p[1]] ELSE NodeIn(KidsOf(list[p[1]]), Tail(p))

NodeAt(p) == IF p = << >> THEN RootNode ELSE NodeIn(TopList, p)

AllPositions ==
    IF IsNodeForm(tree_data) THEN { << >> } \cup PositionsIn(TopList)
    ELSE PositionsIn(TopList)

FieldsAt(p) ==
    IF IsNodeForm(tree_data) THEN get(NodeAt(p), "category", EmptyDict) ELSE NodeAt(p)

IdAt(p) == get(FieldsAt(p), "categoryId", PyNone)
HasNameAt(p) == "categoryName" \in DOMAIN FieldsAt(p)
NameAt(p) == IF HasNameAt(p) THEN FieldsAt(p)["categoryName"] ELSE << >>

\* the nodes for which the code appends an entry
Emitted ==
    IF IsNodeForm(tree_data) THEN { p \in AllPositions : IdAt(p) # << "0" >> }
    ELSE AllPositions

ParentOf(p) == SubSeq(p, 1, Len(p) - 1)

\* p comes before q in pre-order: p is an ancestor of q, or p lies in the
\* subtree of an earlier sibling
Before(p, q) ==
    \E k \in 1..Len(q) :
        /\ \A j \in 1..(k - 1) : j <= Len(p) /\ p[j] = q[j]
        /\ (k > Len(p) \/ p[k] < q[k])

RankOf(p) == Cardinality({ q \in Emitted : Before(q, p) }) + 1

EmittedInPreOrder ==
    [k \in 1..Cardinality(Emitted) |-> CHOOSE p \in Emitted : RankOf(p) = k]

EntryOf(p) == flat_categories[RankOf(p)]

OwnName(p) == IF NameTruthy(NameAt(p)) THEN << NameAt(p) >> ELSE << >>

\* the path the children of the node at p start from
PathAbove(p) ==
    IF p = << >> THEN << >>
    ELSE IF Len(p) = 1 /\ ~IsNodeForm(tree_data) THEN << >>
    ELSE IF ParentOf(p) \in Emitted THEN EntryOf(ParentOf(p)).path
    ELSE << >>

ScenarioDShape == << << << >> >>, << >> >>

\* C15: the flat list is the pre-order of the tree: every emitted category
\* precedes its descendants and siblings appear with their subtrees in
\* input order; root "0" with children A (child A1) and B gives exactly
\* A [A], A1 [A, A1], B [B].
C15_PreOrder ==
    /\ (pc = "flattened" /\ HasForm) =>
          /\ Len(flat_categories) = Cardinality(Emitted)
          /\ \A k \in 1..Len(flat_categories) :
                /\ flat_categories[k].ebayCategoryId = IdAt(EmittedInPreOrder[k])
                /\ flat_categories[k].name = NameAt(EmittedInPreOrder[k])
    /\ (pc = "flattened" /\ tree_data = NodeFormTree(ScenarioDShape, NoIrregularity)) =>
          [k \in 1..Len(flat_categories) |->
              << flat_categories[k].name, flat_categories[k].path >>]
          = << << <<"A">>, << <<"A">> >> >>,
               << <<"A","1">>, << <<"A">>, <<"A","1">> >> >>,
               << <<"B">>, << <<"B">> >> >> >>

C15_Witness ==
    /\ pc = "flattened"
    /\ tree_data = NodeFormTree(ScenarioDShape, NoIrregularity)
    /\ Len(flat_categories) = 3
    /\ flat_categories[2].name = <<"A","1">>

\* C16: the path of every emitted category is the path of its parent's
\* record with its own name appended when the name is non-empty, and the
\* parent's path unchanged when the name is empty; directly under the root
\* "0", and at the top level of the legacy form, the path is the own name
\* only.
C16_PathCorrectness ==
    (pc = "flattened" /\ HasForm) =>
        /\ Len(flat_categories) = Cardinality(Emitted)
        /\ \A p \in Emitted :
              /\ EntryOf(p).path = PathAbove(p) \o OwnName(p)
              /\ (Len(p) = 1 /\ (~IsNodeForm(tree_data) \/ IdAt(<< >>) = << "0" >>))
                    => EntryOf(p).path = OwnName(p)

\* a nested category without a name keeps the path of its parent
C16_Witness ==
    /\ pc = "flattened"
    /\ HasForm
    /\ \E p \in Emitted :
          /\ Len(p) = 2
          /\ ParentOf(p) \in Emitted
          /\ OwnName(p) = << >>
          /\ Len(EntryOf(p).path) = 1
          /\ EntryOf(p).path = EntryOf(ParentOf(p)).path

\* C17: in the node form and in the legacy form no emitted flat category
\* has the id "0"; the children of a node with id "0" are still emitted.
C17_RootIdNeverEmitted ==
    (pc = "flattened" /\ HasForm) =>
        /\ \A k \in 1..Len(flat_categories) :
              flat_categories[k].ebayCategoryId # << "0" >>
        /\ \A p \in AllPositions :
              IdAt(p) # << "0" >> =>
                 \E k \in 1..Len(flat_categories) :
                    flat_categories[k].ebayCategoryId = IdAt(p)

HasLeafFlag(p) == "leafCategoryTreeNode" \in DOMAIN NodeAt(p)

\* C18 as stated: with an explicit leaf flag the emitted leaf value is that
\* flag; only without the flag it is "the node has zero children".
C18_ExplicitLeafFlagWins ==
    (pc = "flattened" /\ IsNodeForm(tree_data)) =>
        \A p \in Emitted :
            EntryOf(p).leafFlag =
               IF HasLeafFlag(p) THEN NodeAt(p)["leafCategoryTreeNode"]
               ELSE Len(KidsOf(NodeAt(p))) = 0

\* C19: when neither a root node nor a non-empty legacy category list is
\* detectable, whatever keys and value types the input holds, flattening
\* returns the empty list and raises nothing.
C19_UnrecognizedShapeGivesEmpty ==
    (pc # "flatten" /\ ~HasForm) =>
        /\ pc = "flattened"
        /\ raised = ""
        /\ flat_categories = << >>

LacksIdOrName(p) == "categoryId" \notin DOMAIN FieldsAt(p) \/ ~HasNameAt(p)

\* C20: when some nodes lack an id or a name, flattening raises nothing and
\* emits a record for every other node and for the descendants of the
\* malformed node; a node without a name gets the name "" and the path of
\* its parent.
C20_MalformedNodes ==
    (pc # "flatten" /\ HasForm /\ \E p \in AllPositions : LacksIdOrName(p)) =>
        /\ pc = "flattened"
        /\ raised = ""
        /\ Len(flat_categories) = Cardinality(Emitted)
        /\ \A p \in Emitted :
              /\ EntryOf(p).ebayCategoryId = IdAt(p)
              /\ ~HasNameAt(p) =>
                    /\ EntryOf(p).name = << >>
                    /\ EntryOf(p).path = PathAbove(p)
              /\ HasNameAt(p) => EntryOf(p).name = FieldsAt(p)["categoryName"]

\* a node without a name that has a child: both were emitted
C20_Witness ==
    /\ pc = "flattened"
    /\ HasForm
    /\ \E p \in Emitted :
          /\ ~HasNameAt(p)
          /\ Len(KidsOf(NodeAt(p))) > 0
          /\ EntryOf(p).name = << >>
          /\ Append(p, 1) \in Emitted
          /\ EntryOf(Append(p, 1)).path = PathAbove(p) \o OwnName(Append(p, 1))

(***************************************************************************)
(* Properties of the tokenizer (SpecScore).                                *)
(***************************************************************************)
\* the positions where a maximal separator-free fragment of the text starts
FragmentStarts(text) ==
    { a \in 1..Len(text) :
        text[a] \notin Separators /\ (a = 1 \/ text[a - 1] \in Separators) }

FragmentEnd(text, a) ==
    CHOOSE b \in a..Len(text) :
        /\ \A j \in a..b : text[j] \notin Separators
        /\ b = Len(text) \/ text[b + 1] \in Separators

MaximalFragments(text) ==
    [k \in 1..Cardinality(FragmentStarts(text)) |->
        LET a == CHOOSE x \in FragmentStarts(text) :
                    Cardinality({ y \in FragmentStarts(text) : y < x }) = k - 1
        IN  SubSeq(text, a, FragmentEnd(text, a))]

UpperCaseLetters == DOMAIN UpperToLower \cup UpperWithoutLower

\* C22 as stated: the tokens are the maximal fragments of the lower-cased
\* text in order, none empty, none with a separator or an upper-case letter;
\* empty or separator-only input gives the empty sequence.
C22_Tokenizer_Stated ==
    pc = "returned" =>
       LET tokens == tokenize(ebay_name)
       IN  /\ tokens = MaximalFragments(lower(ebay_name))
           /\ \A k \in 1..Len(tokens) :
                 /\ tokens[k] # << >>
                 /\ \A i \in 1..Len(tokens[k]) :
                       tokens[k][i] \notin Separators \cup UpperCaseLetters
           /\ (\A i \in 1..Len(ebay_name) : ebay_name[i] \in Separators)
                 => tokens = << >>

\* C22: the tokens are the maximal fragments of the lower-cased text in
\* order, none empty, none with a separator or with a letter that has a
\* lower-case form left in upper case; an upper-case letter without a
\* lower-case mapping stays as it is; empty or separator-only input gives
\* the empty sequence.
C22_Tokenizer ==
    pc = "returned" =>
       LET tokens == tokenize(ebay_name)
       IN  /\ tokens = MaximalFragments(lower(ebay_name))
           /\ \A k \in 1..Len(tokens) :
                 /\ tokens[k] # << >>
                 /\ \A i \in 1..Len(tokens[k]) :
                       tokens[k][i] \notin Separators \cup DOMAIN UpperToLower
           /\ \A i \in 1..Len(ebay_name) :
                 ebay_name[i] \in UpperWithoutLower
                    => \E k \in 1..Len(tokens) : InList(ebay_name[i], tokens[k])
           /\ (\A i \in 1..Len(ebay_name) : ebay_name[i] \in Separators)
                 => tokens = << >>

\* a name with upper-case letters, a run of separators and a trailing one
C22_Witness ==
    /\ pc = "returned"
    /\ ebay_name = <<"F","l","a","t","_","S","c","r","e","e","n"," "," ","T","V","-">>
    /\ tokenize(ebay_name) = << <<"f","l","a","t">>, <<"s","c","r","e","e","n">>, <<"t","v">> >>

(***************************************************************************)
(* Parent linkage of the flattener (SpecFlatten).                          *)
(***************************************************************************)
\* the id of the node that contains the node at p in the input
EnclosingId(p) ==
    IF p = << >> THEN PyNone
    ELSE IF Len(p) = 1
         THEN IF IsNodeForm(tree_data) THEN IdAt(<< >>) ELSE PyNone
         ELSE IdAt(ParentOf(p))

\* C26: in both forms the parentId of every emitted flat category is the id
\* of the node that contains it in the input: the id of the enclosing node
\* for a nested category, "0" under the root "0", null without an enclosing
\* node.
C26_ParentLinkage ==
    (pc = "flattened" /\ HasForm) =>
        \A p \in Emitted : EntryOf(p).parentId = EnclosingId(p)

(***************************************************************************)
(* Reachability of the confidence levels (SpecScore).                      *)
(***************************************************************************)
\* C28: the scorer never returns LOW: whenever at least one token of the
\* name is among the display-name or id tokens the result is already HIGH,
\* so every result is HIGH, MEDIUM or no match.
C28_NeverLow ==
    pc = "returned" =>
        /\ HasDirectToken(ebay_name, scanium_id, scanium_name)
              => (result[1] /\ result[2] = CONFIDENCE_HIGH)
        /\ result[2] \in { CONFIDENCE_HIGH, CONFIDENCE_MEDIUM, "" }
        /\ result[1] <=> result[2] # ""

(***************************************************************************)
(* The subtype selected by the mapping pass (Spec).                        *)
(***************************************************************************)
Matches(cat, sub) == match_confidence(cat.name, sub.id, sub.displayName)[1]

\* the subtypes before index n that the scorer matches with the category
MatchingBefore(cat, n) ==
    { k \in 1..(n - 1) : Matches(cat, scanium_subtypes[k]) }

FirstMatching(cat, n) ==
    CHOOSE k \in MatchingBefore(cat, n) : \A j \in MatchingBefore(cat, n) : k <= j

\* C29: the subtype recorded for a category is the first subtype in list
\* order that the scorer matches, with the confidence the scorer returns for
\* that subtype: the current best is never replaced once set.
C29_FirstMatchIsRecorded ==
    /\ pc = "subtype" =>
          LET cat == ebay_categories[ci]
          IN  IF MatchingBefore(cat, si) = { }
              THEN best_match = << >>
              ELSE LET first == scanium_subtypes[FirstMatching(cat, si)]
                   IN  /\ best_match = << first >>
                       /\ best_confidence
                             = match_confidence(cat.name, first.id, first.displayName)[2]
    /\ (pc = "category" /\ ci > 1) =>
          LET cat == ebay_categories[ci - 1]
              n == Len(scanium_subtypes) + 1
          IN  MatchingBefore(cat, n) # { } =>
                 LET first == scanium_subtypes[FirstMatching(cat, n)]
                     rec == mappings[Len(mappings)]
                 IN  /\ rec.ebayName = cat.name
                     /\ rec.scaniumSubtypeId = first.id
                     /\ rec.confidence
                           = match_confidence(cat.name, first.id, first.displayName)[2]

\* a MEDIUM first match was kept although a later subtype scored HIGH
C29_Witness ==
    /\ pc = "category"
    /\ ci > 1
    /\ Len(scanium_subtypes) = 2
    /\ Len(mappings) >= 1
    /\ mappings[Len(mappings)].ebayName = ebay_categories[ci - 1].name
    /\ mappings[Len(mappings)].scaniumSubtypeId = scanium_subtypes[1].id
    /\ mappings[Len(mappings)].confidence = CONFIDENCE_MEDIUM
    /\ last[1]
    /\ last[2] = CONFIDENCE_HIGH

(***************************************************************************)
(* The mapping pass on an empty category list (Spec).                      *)
(***************************************************************************)
\* C30: with zero flat categories map_categories writes both documents with
\* empty lists and zero counts and returns 0 without raising.
C30_EmptyInputCompletes ==
    Len(ebay_categories) = 0 =>
        /\ pc # "ZeroDivisionError"
        /\ pc = "return 0" =>
              /\ Len(outputs) = 2
              /\ outputs[1].records = << >> /\ outputs[1].totalMapped = 0
              /\ outputs[2].records = << >> /\ outputs[2].totalUnmapped = 0

(***************************************************************************)
(* Determinism of the pipeline (SpecPipeline).                             *)
(***************************************************************************)
\* C21: two runs of flatten followed by the mapping pass on the same tree
\* and the same subtype list produce the same mappings and unmapped lists
\* and write the same documents: the same records in the same order with
\* the same confidence values, whatever the run before them left behind.
C21_Determinism ==
    (run >= 3 /\ pc \in { "summary", "return 0", "ZeroDivisionError" }) =>
        /\ mappings = previous[1]
        /\ unmapped = previous[2]
        /\ outputs = previous[3]

\* a run that started on what another run had left has ended with records
\* in both lists, as the run before it on the same tree
C21_Witness ==
    /\ run = 3
    /\ pc = "return 0"
    /\ Len(mappings) >= 2
    /\ Len(unmapped) >= 2
    /\ previous = << mappings, unmapped, outputs >>
    /\ outputs[1].records = mappings

(***************************************************************************)
(* Properties of dedupe_brands and merge_brands (SpecBrands).              *)
(***************************************************************************)
\* the key under which two brands are the same brand
BrandKey(brand) == lower(normalize_brand(brand))

IsBlank(brand) == normalize_brand(brand) = << >>

\* the first entry of the list that carries the brand of entry i
FirstOccurrence(brands, i) ==
    CHOOSE j \in 1..i :
        /\ BrandKey(brands[j]) = BrandKey(brands[i])
        /\ \A h \in 1..(j - 1) : BrandKey(brands[h]) # BrandKey(brands[i])

\* no blank or untrimmed entry, ascending by lower-cased value, which also
\* excludes two entries that differ in casing only
SortedWithoutDuplicates(brands) ==
    /\ \A k \in 1..Len(brands) :
          ~IsBlank(brands[k]) /\ normalize_brand(brands[k]) = brands[k]
    /\ \A k \in 1..(Len(brands) - 1) :
          StrLess(lower(brands[k]), lower(brands[k + 1]))

\* C23: the result of dedupe_brands holds each distinct trimmed non-empty
\* brand exactly once under case-insensitive comparison, in the casing of
\* its first occurrence, ascending by lower-cased value; blank entries are
\* dropped and the empty list gives the empty list.
C23_DedupeBrands ==
    pc = "deduped" =>
        /\ SortedWithoutDuplicates(returned)
        /\ \A i \in 1..Len(existing) :
              ~IsBlank(existing[i]) =>
                 /\ Cardinality({ k \in 1..Len(returned) :
                                    lower(returned[k]) = BrandKey(existing[i]) }) = 1
                 /\ InList(normalize_brand(existing[FirstOccurrence(existing, i)]),
                           returned)
        /\ \A k \in 1..Len(returned) :
              \E i \in 1..Len(existing) : normalize_brand(existing[i]) = returned[k]
        /\ existing = << >> => returned = << >>

\* three entries of one brand after another brand, and a blank entry
C23_Witness ==
    /\ pc = "deduped"
    /\ Len(existing) = 3
    /\ existing[1] = <<"S","o","n","y">>
    /\ existing[2] = <<" ","A","P","P","L","E">>
    /\ existing[3] = <<"a","p","p","l","e">>
    /\ returned = << <<"A","P","P","L","E">>, <<"S","o","n","y">> >>

\* C24: merge_brands(existing, new) is dedupe_brands of existing followed
\* by new: a brand present in both keeps the casing found in existing, the
\* result is sorted case-insensitively without case-insensitive duplicates,
\* and merging the same new list into the result again changes nothing.
C24_MergeBrands ==
    /\ pc = "merged" =>
          /\ returned = dedupe_brands(existing \o new_brands)
          /\ SortedWithoutDuplicates(returned)
          /\ \A i \in 1..Len(existing) :
                ~IsBlank(existing[i]) =>
                   InList(normalize_brand(existing[FirstOccurrence(existing, i)]),
                          returned)
          /\ \A i \in 1..Len(new_brands) :
                ~IsBlank(new_brands[i]) =>
                   \E k \in 1..Len(returned) :
                      lower(returned[k]) = BrandKey(new_brands[i])
    /\ pc = "merged again" =>
          returned = dedupe_brands(existing \o new_brands)

\* the new list brings another casing of an existing brand
C24_Witness ==
    /\ pc = "merged again"
    /\ existing = << <<"S","o","n","y">>, <<"a","p","p","l","e">> >>
    /\ new_brands = << <<"A","p","p","l","e">> >>
    /\ returned = << <<"a","p","p","l","e">>, <<"S","o","n","y">> >>

(***************************************************************************)
(* Properties of validate_payload (SpecValidate).                          *)
(***************************************************************************)
\* an object whose key brandsBySubtype holds an object that maps string
\* ids to lists of strings; with strict, no string is blank
ListsOfStrings(p, strict) ==
    /\ p.kind = "dict"
    /\ HasKey(p.val, <<"b","r","a","n","d","s","B","y","S","u","b","t","y","p","e">>)
    /\ LET brands_by_subtype == Lookup(p.val, <<"b","r","a","n","d","s","B","y","S","u","b","t","y","p","e">>)
       IN  /\ brands_by_subtype.kind = "dict"
           /\ \A i \in 1..Len(brands_by_subtype.val) :
                 LET item == brands_by_subtype.val[i]
                 IN  /\ item[1].kind = "str"
                     /\ item[2].kind = "list"
                     /\ \A k \in 1..Len(item[2].val) :
                           /\ item[2].val[k].kind = "str"
                           /\ strict => ~IsBlank(item[2].val[k].val)

\* C25: validate_payload returns (True, "") exactly when the payload is an
\* object with a key brandsBySubtype whose value is an object mapping string
\* subtype ids to lists of strings that are non-empty after trimming;
\* otherwise it returns False with a non-empty message, which names
\* brandsBySubtype when the key is missing and says "Empty brand" for a
\* blank brand.
C25_ValidatePayload ==
    pc = "validated" =>
        /\ validation[1] <=> ListsOfStrings(payload, TRUE)
        /\ validation[1] <=> validation[2].text = ""
        /\ (payload.kind = "dict" /\ ~HasKey(payload.val, <<"b","r","a","n","d","s","B","y","S","u","b","t","y","p","e">>))
              => validation[2].text = "Payload must contain 'brandsBySubtype' key"
        /\ (ListsOfStrings(payload, FALSE) /\ ~ListsOfStrings(payload, TRUE))
              => validation[2].text = "Empty brand in {subtype_id}"

\* the second subtype of the payload has a blank brand after a good one
C25_Witness ==
    /\ pc = "validated"
    /\ ListsOfStrings(payload, FALSE)
    /\ Len(Lookup(payload.val, <<"b","r","a","n","d","s","B","y","S","u","b","t","y","p","e">>).val) = 2
    /\ ~validation[1]
    /\ validation[2].text = "Empty brand in {subtype_id}"
    /\ validation[2].about = << <<"e","l","e","c","t","r","o","n","i","c","s","_","p","h","o","n","e">> >>

(***************************************************************************)
(* Frame of apply_update (SpecCatalog).                                    *)
(***************************************************************************)
\* the brand is listed under case-insensitive comparison
ListsIgnoringCase(brands, brand) ==
    \E k \in 1..Len(brands) : lower(brands[k]) = lower(brand)

\* the brand is listed under case-insensitive comparison of the brands
\* without their surrounding whitespace
Lists(brands, brand) ==
    \E k \in 1..Len(brands) : BrandKey(brands[k]) = BrandKey(brand)

\* C27 as stated: in every call with a valid payload every subtype of the
\* catalog stays in it, a subtype that is not in the payload keeps exactly
\* its brand list, every non-blank brand listed for a subtype is still
\* listed for it under case-insensitive comparison, and the other top-level
\* fields of the catalog do not change.
C27_OnlyAppends_Stated ==
    [][ (updates' = updates + 1 /\ validation'[1]) =>
           /\ \A s \in DOMAIN catalog.brandsBySubtype :
                 /\ s \in DOMAIN catalog'.brandsBySubtype
                 /\ s \notin PayloadSubtypes(payload')
                       => catalog'.brandsBySubtype[s] = catalog.brandsBySubtype[s]
                 /\ \A k \in 1..Len(catalog.brandsBySubtype[s]) :
                       ~IsBlank(catalog.brandsBySubtype[s][k])
                          => ListsIgnoringCase(catalog'.brandsBySubtype[s],
                                               catalog.brandsBySubtype[s][k])
           /\ catalog'.id = catalog.id
           /\ catalog'.version = catalog.version
           /\ catalog'.description = catalog.description ]_vars

\* C27: in every call with a valid payload every subtype of the catalog
\* stays in it, a subtype that is not in the payload keeps exactly its brand
\* list, every non-blank brand listed for a subtype is still listed for it
\* under case-insensitive comparison once surrounding whitespace is trimmed,
\* and the other top-level fields of the catalog do not change; so it is
\* after any sequence of calls.
C27_OnlyAppends ==
    [][ (updates' = updates + 1 /\ validation'[1]) =>
           /\ \A s \in DOMAIN catalog.brandsBySubtype :
                 /\ s \in DOMAIN catalog'.brandsBySubtype
                 /\ s \notin PayloadSubtypes(payload')
                       => catalog'.brandsBySubtype[s] = catalog.brandsBySubtype[s]
                 /\ \A k \in 1..Len(catalog.brandsBySubtype[s]) :
                       ~IsBlank(catalog.brandsBySubtype[s][k])
                          => Lists(catalog'.brandsBySubtype[s],
                                   catalog.brandsBySubtype[s][k])
           /\ catalog'.id = catalog.id
           /\ catalog'.version = catalog.version
           /\ catalog'.description = catalog.description ]_vars

\* the hand-edited catalog after a valid payload for electronics_laptop:
\* "dell " is listed as "dell", the new brand is appended, the list of
\* furniture_sofa is as it was, and so is the version
C27_Witness ==
    /\ pc = "shell"
    /\ updates >= 1
    /\ validation[1]
    /\ PayloadSubtypes(payload) = { <<"e","l","e","c","t","r","o","n","i","c","s","_","l","a","p","t","o","p">> }
    /\ catalog.version = "2.0.0"
    /\ catalog.brandsBySubtype[<<"e","l","e","c","t","r","o","n","i","c","s","_","l","a","p","t","o","p">>] = << <<"a","p","p","l","e">>, <<"d","e","l","l">>, <<"s","o","n","y">> >>
    /\ catalog.brandsBySubtype[<<"f","u","r","n","i","t","u","r","e","_","s","o","f","a">>] = << <<"I","K","E","A">>, <<"i","k","e","a">> >>

====
